---- MODULE Spec2Model ----
(***************************************************************************)
(* Monte Carlo tree search engine of adamp87/MCTS (src/src/cc/mcts.hpp),    *)
(* driven by the Connect4 problem adapter (src/src/connect4.hpp).           *)
(*                                                                         *)
(* Doubles are modelled as exact rationals: W is an integer sum of the     *)
(* integer values the priors service returns, P and the Dirichlet noise    *)
(* are numerators over PDen, and std::numeric_limits<double>::epsilon()    *)
(* is an infinitesimal.                                                     *)
(***************************************************************************)
EXTENDS Integers, Sequences, FiniteSets, TLC

(* ------------------------------ bounds --------------------------------- *)
\* board width (7 in connect4.hpp), scaled down
Cols == 2
\* board height (6 in connect4.hpp), scaled down
Rows == 2
\* stones in a line that win (4 in connect4.hpp), scaled down
WinLen == 2
\* largest policyIter a caller passes to execute
MaxIter == 3
\* number of execute calls made on one tree
MaxCalls == 2
\* longest history a caller passes to execute
MaxHist == 2
\* iterations one tree receives over all execute calls
MaxTotal == 4
\* denominator of the priors
PDen == 4
\* denominator of the Dirichlet noise
DDen == 3
\* iterations per chunk of the omp dynamic schedule (6 in mcts.hpp), scaled down
ChunkSize == 1
\* worker threads of the OpenMP build
MTWorkers == 2
\* largest policyIter in the OpenMP build
MaxIterMT == 3
\* number of execute calls made on one tree in the OpenMP build
MaxCallsMT == 1
\* N_MaxChild of MCTreeStaticArray, scaled down
MaxChild == 3
\* addNode calls made on the storage layouts
MaxTreeAdds == 4
\* largest rolloutIter and largest maxRolloutDepth of the rollout engine
MaxRolloutIter == 3
MaxRolloutDepth == 3
\* longest reply, in bytes, the sink of training samples sends
MaxReplyLen == 3
\* largest argument (a visit count, a history length) a function of the
\* engine is applied to on its own
MaxArg == 260
\* most actions handed to computeMCTS_WP when it is called on its own
MaxWpActions == 3
\* most tokens after the name of the program on a command line
MaxTokens == 4
\* most half-moves played in a game of Chess
MaxPlies == 3
\* execute on a Problem given by numbers: most iterations of a call, most
\* half-moves to the end of its game, most entries of visited_nodes counted
MaxPolIter == 3
MaxPolDepth == 2
MaxPolVisited == 4

(* ------------------------- program constants --------------------------- *)
White == 0
Black == 1
Unset == 2
ScanLimit == 7
UCT_C == 1
\* ratio of noise for root priors, in quarters (0.75)
RatioRoot4 == 3
\* ratio at deeper nodes, in quarters (1.0)
RatioChild4 == 4
FanOutFirst == 1
ActCounterMod == 256
\* double tau = 1.0; if (history.size()>60) tau = 0.05;  in units of 1/100
TauEarly100 == 100
TauLate100 == 5
TauAfter == 60
\* if (ok[0] != 4 || ok[1] != 2) throw
AckByte0 == 4
AckByte1 == 2

\* values W the priors service may return (result[6*7])
WVals == {-1, 1}

\* Chess::Figure::Type and the points of computeMCTS_W
FigUnset == 0
FigPawn == 1
FigRook == 4
FigQueen == 5
FigKing == 6
figureValue == <<0, 1, 3, 3, 5, 9, 4>>

\* the exit status the host keeps of the value main returns: one byte
ExitMod == 256

(* --------------------------- Connect4 problem --------------------------- *)
Act(x, y) == [x |-> x, y |-> y]

getXY(y, x) == y * Cols + x

Cells == 0 .. (Rows * Cols - 1)

InitState ==
    [time |-> 0, board |-> [c \in Cells |-> Unset], finished |-> <<FALSE, FALSE>>]

getPlayer(s) == s.time % 2

isFinished(s) == s.finished[1] \/ s.finished[2]

\* the first free cell of column x, from bottom to top
FreeY(s, x) == CHOOSE y \in 0 .. (Rows - 1) :
                  /\ s.board[getXY(y, x)] = Unset
                  /\ \A yy \in 0 .. (y - 1) : s.board[getXY(yy, x)] # Unset

RECURSIVE ActionsFrom(_, _)
ActionsFrom(s, x) ==
    IF x >= Cols THEN <<>>
    ELSE IF s.board[getXY(Rows - 1, x)] # Unset THEN ActionsFrom(s, x + 1)
    ELSE <<Act(x, FreeY(s, x))>> \o ActionsFrom(s, x + 1)

getPossibleActions(s) == ActionsFrom(s, 0)

isInsideBoard(x, y, dx, dy) ==
    /\ 0 <= x + dx /\ x + dx < Cols
    /\ 0 <= y + dy /\ y + dy < Rows

isOwnStone(b, idxAi, x, y, dx, dy) ==
    /\ isInsideBoard(x, y, dx, dy)
    /\ b[getXY(y + dy, x + dx)] = idxAi

scanLine(b, idxAi, x, y, sx, sy) ==
    LET own(n) == isOwnStone(b, idxAi, x, y, sx * n, sy * n)
        run == CHOOSE m \in 0 .. (ScanLimit - 1) :
                  /\ \A n \in 1 .. m : own(n)
                  /\ (m = ScanLimit - 1 \/ ~own(m + 1))
    IN  1 + run >= WinLen

update(s, act) ==
    LET idxAi == getPlayer(s)
        b == [s.board EXCEPT ![getXY(act.y, act.x)] = idxAi]
        wins == \E y \in 0 .. (Rows - 1), x \in 0 .. (Cols - 1) :
                   /\ b[getXY(y, x)] = idxAi
                   /\ \/ scanLine(b, idxAi, x, y, 0, 1)
                      \/ scanLine(b, idxAi, x, y, 1, 0)
                      \/ scanLine(b, idxAi, x, y, 1, 1)
                      \/ scanLine(b, idxAi, x, y, -1, 1)
        emptyCount == Cardinality({c \in Cells : b[c] = Unset})
        fin1 == [s.finished EXCEPT ![idxAi + 1] = @ \/ wins]
        fin2 == IF emptyCount = 0 /\ ~fin1[1] /\ ~fin1[2]
                THEN <<TRUE, TRUE>> ELSE fin1
    IN  [time |-> s.time + 1, board |-> b, finished |-> fin2]

RECURSIVE Replay(_, _)
Replay(s, h) == IF h = <<>> THEN s ELSE Replay(update(s, Head(h)), Tail(h))

\* the histories the main loop can hand to execute: legal play from the
\* initial state, the game not finished
RECURSIVE LegalHistories(_, _)
LegalHistories(s, n) ==
    IF isFinished(s) THEN {}
    ELSE {<<>>} \cup
         (IF n = 0 THEN {}
          ELSE UNION {{<<getPossibleActions(s)[i]>> \o h :
                          h \in LegalHistories(update(s, getPossibleActions(s)[i]), n - 1)} :
                      i \in 1 .. Len(getPossibleActions(s))})

Histories == LegalHistories(InitState, MaxHist)

(* ------------------------------ the tree -------------------------------- *)
NewNodeDirtyW(act) ==
    [N |-> 0, W |-> 1, P |-> 0, action |-> act, childs |-> <<>>, lock |-> 0]

\* MCTSNodeBase / MCTSNodeBaseMT plus MCTreeDynamic::Node; lock = 0 is a free
\* mutex, otherwise the thread that holds it
NewNode(act) ==
    [N |-> 0, W |-> 0, P |-> 0, action |-> act, childs |-> <<>>, lock |-> 0]

Root == 1

\* the artificial root holds ActType(), which is x = 0, y = 0
InitTree == <<NewNode(Act(0, 0))>>

addNodeFront(ns, parent, act) ==
    Append([ns EXCEPT ![parent].childs = <<Len(ns) + 1>> \o @], NewNode(act))

\* MCTreeDynamic::addNode: the new node is the last one of ns
addNode(ns, parent, act) ==
    Append([ns EXCEPT ![parent].childs = Append(@, Len(ns) + 1)], NewNode(act))

getChildCount(ns, node) == Len(ns[node].childs)

FindChildNever(ns, node, act) == 0

\* position of the first child of node labelled act, 0 if there is none
FindChild(ns, node, act) ==
    LET ch == ns[node].childs
        hits == {i \in 1 .. Len(ch) : ns[ch[i]].action = act}
    IN  IF hits = {} THEN 0
        ELSE CHOOSE i \in hits : \A j \in hits : i <= j

RECURSIVE catchup(_, _, _)
catchup(ns, node, h) ==
    IF h = <<>> THEN [nodes |-> ns, node |-> node]
    ELSE LET i == FindChild(ns, node, Head(h))
         IN  IF i # 0 THEN catchup(ns, ns[node].childs[i], Tail(h))
             ELSE catchup(addNode(ns, node, Head(h)), Len(ns) + 1, Tail(h))

(* ------------------------------ selection ------------------------------- *)
Max(a, b) == IF a >= b THEN a ELSE b
Min(a, b) == IF a <= b THEN a ELSE b

\* sqrt(std::max(static_cast<ActCounterType>(node->N), (ActCounterType)1)):
\* the argument of the square root; ActCounterType is std::uint_fast8_t
SqrtArg(n) == Max(n % ActCounterMod, 1)

\* X + Y * sqrt(M) > 0, for integers X, Y and M >= 1
PosSum(X, Y, M) ==
    IF X >= 0 /\ Y >= 0 THEN X > 0 \/ Y > 0
    ELSE IF X <= 0 /\ Y <= 0 THEN FALSE
    ELSE IF X > 0
         THEN (X > (-Y) * M) \/ (X * X > Y * Y * M)
         ELSE ~((-X) > Y * M) /\ (Y * Y * M > X * X)

\* getUCB: what it reads of the child, with p = ratio*P + (1-ratio)*dnoise in
\* units of 1/(4*PDen*DDen)
getUCB(c, ratio4, dn) ==
    [N |-> c.N, W |-> c.W, p |-> ratio4 * c.P * DDen + (4 - ratio4) * dn * PDen]

\* v1 < v2 for two getUCB values under the same sqrt argument M, where
\* val = W/(N+eps) + UCT_C * p * sqrt(M)/(1+N+eps)
UCBLess(v1, v2, M) ==
    LET big1 == IF v1.N = 0 THEN v1.W ELSE 0
        big2 == IF v2.N = 0 THEN v2.W ELSE 0
        d1 == Max(v1.N, 1)
        d2 == Max(v2.N, 1)
        q1 == IF v1.N = 0 THEN 0 ELSE v1.W
        q2 == IF v2.N = 0 THEN 0 ELSE v2.W
        anum == q2 * d1 - q1 * d2
        aden == d1 * d2
        bnum == UCT_C * (v2.p * (1 + v1.N) - v1.p * (1 + v2.N))
        bden == 4 * PDen * DDen * (1 + v1.N) * (1 + v2.N)
    IN  IF big1 # big2 THEN big1 < big2
        ELSE PosSum(anum * bden, bnum * aden, M)

\* selectMoveDeterministic: the loop over the children from position i
RECURSIVE MostVisited(_, _, _, _, _)
MostVisited(ns, node, i, most_ptr, most_visit) ==
    IF i > Len(ns[node].childs) THEN most_ptr
    ELSE LET child == ns[node].childs[i]
         IN  IF most_visit < ns[child].N
             THEN MostVisited(ns, node, i + 1, child, ns[child].N)
             ELSE MostVisited(ns, node, i + 1, most_ptr, most_visit)

selectMoveDeterministic(ns, node) == ns[MostVisited(ns, node, 1, node, 0)].action

\* execute, stochastic branch: the temperature for a history of len actions
Tau100(len) == IF len > TauAfter THEN TauLate100 ELSE TauEarly100

\* pow(child->N, 1.0/tau), tau in hundredths
RECURSIVE Pow(_, _)
Pow(n, e) == IF e = 0 THEN 1 ELSE n * Pow(n, e - 1)

\* std::accumulate(std::begin(pi), std::end(pi), 0.0)
RECURSIVE Accumulate(_)
Accumulate(v) == IF v = <<>> THEN 0 ELSE Head(v) + Accumulate(Tail(v))

\* selectMoveStochastic, piAction: for every child, in the order of the
\* child iterator, its action and pi = N^(1/tau) over the sum of these
piAction(ns, node, tau100) ==
    LET ch == ns[node].childs
        pi == [i \in 1 .. Len(ch) |-> Pow(ns[ch[i]].N, 100 \div tau100)]
    IN  [i \in 1 .. Len(ch) |->
            [action |-> ns[ch[i]].action, pi |-> <<pi[i], Accumulate(pi)>>]]

selectMoveAnyChild(ns, node) ==
    {ns[ns[node].childs[i]].action : i \in 1 .. Len(ns[node].childs)}

\* selectMoveStochastic: pi[i] = N[i]^(1/tau) / sum; discrete_distribution
\* draws a child of positive weight. With every N zero the weights are 0/0
\* and the draw is any child.
selectMoveStochastic(ns, node) ==
    LET ch == ns[node].childs
        pos == {i \in 1 .. Len(ch) : ns[ch[i]].N > 0}
    IN  {ns[ch[i]].action : i \in (IF pos = {} THEN 1 .. Len(ch) ELSE pos)}

\* the priors computeMCTS_WP can return for n legal actions: a softmax, so
\* every entry is positive and they sum to one (numerators over PDen)
RECURSIVE PosVecs(_, _)
PosVecs(n, total) ==
    IF n = 0 THEN (IF total = 0 THEN {<<>>} ELSE {})
    ELSE UNION {{<<v>> \o r : r \in PosVecs(n - 1, total - v)} : v \in 1 .. total}

PriorVecs(n) == {v \in PosVecs(n, PDen) : \A i \in 1 .. (n - 1) : v[i] >= v[i + 1]}

\* computeDirichlet: gamma samples divided by their sum
DirichletVecs(n) == IF n = 0 THEN {<<>>} ELSE PosVecs(n, DDen)

(* --------------------------- storage layouts ---------------------------- *)
\* MCTreeStaticArray and MCTreeStaticList keep the nodes in one vector: the
\* node with index i is at position i + 1, the root has index 0, and index 0
\* in a child slot or a link means "none"
At(v, idx) == v[idx + 1]

\* the labels given to the nodes added to the layouts
TreeActs == {Act(x, 0) : x \in 0 .. (Cols - 1)}

\* what a read outside childs[0 .. N_MaxChild-1] may yield beside 0
Garbage == -1

DynNode(act) == [action |-> act, childs |-> <<>>]

\* MCTreeDynamic::addNode; a node is named by its place in the order of creation
DynAdd(v, p, act) == Append([v EXCEPT ![p + 1].childs = Append(@, Len(v))], DynNode(act))

\* MCTreeDynamic::ChildIterator: the children yielded
DynIter(v, p) == At(v, p).childs

ArrNode(act) == [action |-> act, childs |-> [i \in 0 .. (MaxChild - 1) |-> 0]]

\* MCTreeStaticArray::addNode, the loop: first free slot, N_MaxChild if none
ArrFreeIdx(parent) ==
    LET free == {i \in 0 .. (MaxChild - 1) : parent.childs[i] = 0}
    IN  IF free = {} THEN MaxChild ELSE CHOOSE i \in free : \A j \in free : i <= j

\* MCTreeStaticArray::addNode: the vector after the call, and whether
\* parent.childs[idx] was written with idx = N_MaxChild, outside the array
ArrAdd(v, p, act) ==
    LET idx == ArrFreeIdx(At(v, p))
    IN  IF idx < MaxChild
        THEN [v |-> Append([v EXCEPT ![p + 1].childs[idx] = Len(v)], ArrNode(act)),
              oob |-> FALSE]
        ELSE [v |-> Append(v, ArrNode(act)), oob |-> TRUE]

\* MCTreeStaticArray::ChildIterator from position pos: the runs hasNext and
\* next can make, each with the children yielded and the slots of childs read.
\* A read of childs[N_MaxChild] is outside the array: it yields 0 or anything.
RECURSIVE ArrIterFrom(_, _, _)
ArrIterFrom(v, p, pos) ==
    IF pos >= MaxChild
    THEN {[yield |-> <<>>, slots |-> {pos}], [yield |-> <<Garbage>>, slots |-> {pos}]}
    ELSE IF At(v, p).childs[pos] = 0
         THEN {[yield |-> <<>>, slots |-> {pos}]}
         ELSE {[yield |-> <<At(v, p).childs[pos]>> \o o.yield,
                slots |-> {pos} \cup o.slots] : o \in ArrIterFrom(v, p, pos + 1)}

LstNode(act) == [action |-> act, child_head |-> 0, parent_next |-> 0]

\* MCTreeStaticList::addNode, the loop: the last element of the list
RECURSIVE LstTail(_, _)
LstTail(v, elem_idx) ==
    IF At(v, elem_idx).parent_next = 0 THEN elem_idx
    ELSE LstTail(v, At(v, elem_idx).parent_next)

LstAddFront(v, p, act) ==
    Append([v EXCEPT ![p + 1].child_head = Len(v)],
           [LstNode(act) EXCEPT !.parent_next = At(v, p).child_head])

\* MCTreeStaticList::addNode
LstAdd(v, p, act) ==
    IF At(v, p).child_head = 0
    THEN Append([v EXCEPT ![p + 1].child_head = Len(v)], LstNode(act))
    ELSE Append([v EXCEPT ![LstTail(v, At(v, p).child_head) + 1].parent_next = Len(v)],
                LstNode(act))

\* MCTreeStaticList::ChildIterator from child_idx: the children yielded
RECURSIVE LstIterFrom(_, _)
LstIterFrom(v, child_idx) ==
    IF child_idx = 0 THEN <<>>
    ELSE <<child_idx>> \o LstIterFrom(v, At(v, child_idx).parent_next)

\* the actions of the children an iterator yielded
ChildActs(v, yield) ==
    [i \in 1 .. Len(yield) |-> IF yield[i] = Garbage THEN Garbage ELSE At(v, yield[i]).action]

NoIter == [node |-> -1, dyn |-> <<>>, arr |-> <<>>, slots |-> {}, lst |-> <<>>,
           dynCount |-> 0, arrCount |-> 0, lstCount |-> 0]

\* the three layouts after construction; ins: per node, its children in the
\* order of the addNode calls; oob: an addNode wrote outside childs; it: the
\* latest run of the child iterators
InitStore ==
    [dyn |-> <<DynNode(Act(0, 0))>>, arr |-> <<ArrNode(Act(0, 0))>>, lst |-> <<LstNode(Act(0, 0))>>,
     ins |-> <<(<<>>)>>, oob |-> FALSE, it |-> NoIter]

(* ------------------------------- state ---------------------------------- *)
VARIABLES
    nodes,      \* the tree: nodes[i] is the node with pointer i, Root first
    mt,         \* TRUE in the OpenMP build (MCTSNodeBaseMT), FALSE otherwise
    mpc,        \* position of the thread that called execute
    call,       \* arguments and locals of the running execute
    iterNext,   \* first iteration of the omp loop not yet handed to a thread
    th,         \* per thread: position and locals of its running iteration
    ret,        \* the action execute returned
    calls,      \* number of execute calls made so far
    used,       \* iterations asked for so far
    store,      \* the three storage layouts of mctree.hpp, built side by side
    fn,         \* a function of the engine applied on its own: input and result
    sink,       \* one call of storeGamePolicyDNN: position, messages, replies
    ro,         \* one iteration of the omp loop of the rollout engine, mcts.hpp
    wp,         \* one call of computeMCTS_WP of an adapter: arguments and result
    csv,        \* what writeResults has written: the history given, the rows
    cli,        \* one run of main: the command line, the position, the exit
    chess,      \* a game of Chess: the state, and the last update made to it
    pol,        \* execute on a Problem given by its numbers of actions: the walk of policy
    g           \* bookkeeping for the properties, never read by the engine

vars == <<nodes, mt, mpc, call, iterNext, th, ret, calls, used, store, fn, sink, ro, wp, csv, cli, chess, pol, g>>

\* the state of the search engine of cc/mcts.hpp
engine == <<nodes, mt, mpc, call, iterNext, th, ret, calls, used, g>>

\* what the search engine never touches
side == <<store, fn, sink, ro, wp, csv, cli, chess, pol>>

NoWp ==
    [pc |-> "call", adapter |-> "Connect4", port |-> "tcp", idxMe |-> 0, nActions |-> 1,
     figs |-> <<<<>>, <<>>>>, sent |-> 0, P |-> <<>>, den |-> 1, W |-> <<0, 1>>]

NoCsv == [history |-> <<>>, idxAi |-> 0, rows |-> <<>>]

NoCli ==
    [pc |-> "start", argv |-> <<>>, i |-> 1, status |-> <<>>,
     constructed |-> FALSE, searched |-> FALSE]

NoChess == [time |-> 0, timeLastProgress |-> 0, figures |-> <<>>, prev |-> <<>>, last |-> <<>>]

NoPol ==
    [pc |-> "policy", iter |-> 0, policyIter |-> 1, det |-> TRUE, nActions |-> 1,
     endDepth |-> 1, stuck |-> FALSE, depth |-> 0, N |-> 0, childs |-> 0,
     rootN |-> 0, rootChilds |-> 0, visited |-> 1]

NoFn == [op |-> "none", in |-> 0, out |-> 0]

\* the head of an iteration of the omp loop of the rollout engine; log: the
\* phases of the iteration in the order they ended; path: who ran the
\* rollouts; leaf: the state as policy left it; copies, ownCopy: the states
\* rollouts started from, and whether each was a copy of leaf; rollouts, backups: rollouts run on the
\* CPU and backprops made after the one of the policy value
NoRo ==
    [pc |-> "policy", rolloutIter |-> 0, maxRolloutDepth |-> 0, hasGPU |-> FALSE,
     state |-> InitState, leaf |-> InitState, rstate |-> InitState, depth |-> 0, applied |-> 0, j |-> 0,
     log |-> <<>>, path |-> "none", copies |-> 0, ownCopy |-> TRUE, rollouts |-> 0,
     backups |-> 0]

\* storeGamePolicyDNN entered, socket connected, nothing sent
NoSink == [pc |-> "sendGame", sent |-> <<>>, replies |-> <<>>]

Threads == 1 .. (IF mt THEN MTWorkers ELSE 1)

NoAct == [x |-> -1, y |-> -1]

IdleThread ==
    [pc |-> "idle", node |-> 0, state |-> InitState, visited |-> <<>>, W |-> 0,
     ratio4 |-> 0, dirichlet |-> <<>>, acts |-> <<>>, P |-> <<>>, idx |-> 0,
     n |-> 0, prev |-> 0, next |-> 0, M |-> 0, best |-> 0,
     bestVal |-> [N |-> 0, W |-> 0, p |-> 0], left |-> 0, expanded |-> 0]

NoCall ==
    [det |-> TRUE, policyIter |-> 0, history |-> <<>>, subroot |-> 0,
     cstate |-> InitState]

\* ends: per node, the iterations whose path ended there; expd: the nodes
\* policy has expanded; cat: the nodes catchup has created; prevh, mono: the
\* history of the latest call, and whether every call so far extended the
\* history of the call before it; bp0: in the build without OpenMP, the tree
\* as the backprop that is running or has just ended found it; stored: the
\* calls of storeGamePolicyDNN the running execute has made
NoGhost ==
    [N0 |-> 0, W0 |-> 0, kids0 |-> 0, kidsW |-> 0, fan |-> 0, early |-> FALSE,
     sumW |-> 0, samples |-> 0, ran |-> <<>>, conc |-> FALSE, exps |-> <<>>,
     ends |-> <<>>, expd |-> {}, cat |-> {}, prevh |-> <<>>, mono |-> TRUE,
     bp0 |-> <<>>, stored |-> 0, piAction |-> <<>>]

\* what of the bookkeeping outlives one call of execute
Kept(gh) ==
    [NoGhost EXCEPT !.samples = gh.samples, !.ends = gh.ends, !.expd = gh.expd,
                    !.cat = gh.cat, !.prevh = gh.prevh, !.mono = gh.mono]

EndsAt(gh, n) == IF n \in DOMAIN gh.ends THEN gh.ends[n] ELSE 0

\* history h extends history p by at least one action
Extends(p, h) == Len(h) > Len(p) /\ SubSeq(h, 1, Len(p)) = p

IterLocalsNoPush(subroot, cstate, d, left) ==
    [IdleThread EXCEPT !.pc = "loop", !.node = subroot, !.state = cstate,
                       !.visited = <<>>, !.ratio4 = RatioRoot4,
                       !.dirichlet = d, !.left = left]

\* the head of policy: visited_nodes holds the sub-root, ratio is 0.75, the
\* Dirichlet vector d has one entry per child of the sub-root; state is the
\* copy of cstate the caller made
IterLocals(subroot, cstate, d, left) ==
    [IdleThread EXCEPT !.pc = "loop", !.node = subroot, !.state = cstate,
                       !.visited = <<subroot>>, !.ratio4 = RatioRoot4,
                       !.dirichlet = d, !.left = left]

InitCommon ==
    /\ nodes = InitTree
    /\ mpc = "idle"
    /\ call = NoCall
    /\ iterNext = 0
    /\ ret = NoAct
    /\ calls = 0
    /\ used = 0
    /\ g = NoGhost

\* the engine before the first call of execute
InitEngine ==
    /\ mt = FALSE
    /\ th = [t \in 1 .. 1 |-> IdleThread]
    /\ InitCommon

Init ==
    /\ InitEngine
    /\ store = InitStore
    /\ fn = NoFn
    /\ sink = NoSink
    /\ pol = NoPol
    /\ chess = NoChess
    /\ cli = NoCli
    /\ csv = NoCsv
    /\ wp = NoWp
    /\ ro = NoRo

InitMT ==
    /\ mt = TRUE
    /\ th = [t \in 1 .. MTWorkers |-> IdleThread]
    /\ InitCommon
    /\ store = InitStore
    /\ fn = NoFn
    /\ sink = NoSink
    /\ pol = NoPol
    /\ chess = NoChess
    /\ cli = NoCli
    /\ csv = NoCsv
    /\ wp = NoWp
    /\ ro = NoRo

(* ------------------------------ execute --------------------------------- *)
\* execute up to the call of policy for the warm iteration: catchup, then the
\* copy of cstate. The main loop calls execute on states that are not finished.
Begin(h, det, k) ==
    /\ mpc = "idle"
    /\ LET c == catchup(nodes, Root, h)
           cs == Replay(InitState, h)
       IN  /\ nodes' = c.nodes
           /\ call' = [det |-> det, policyIter |-> k, history |-> h,
                       subroot |-> c.node, cstate |-> cs]
           /\ \E d \in DirichletVecs(getChildCount(c.nodes, c.node)) :
                 th' = [th EXCEPT ![1] = IterLocals(c.node, cs, d, 0)]
           /\ g' = [Kept(g) EXCEPT !.N0 = c.nodes[c.node].N,
                                   !.W0 = c.nodes[c.node].W,
                                   !.kids0 = getChildCount(c.nodes, c.node),
                                   !.ran = [t \in Threads |-> 0],
                                   !.cat = @ \cup ((Len(nodes) + 1) .. Len(c.nodes)),
                                   !.prevh = h,
                                   !.mono = @ /\ (calls = 0 \/ Extends(g.prevh, h))]
    /\ mpc' = "warm"
    /\ iterNext' = FanOutFirst
    /\ ret' = NoAct
    /\ calls' = calls + 1
    /\ used' = used + k
    /\ UNCHANGED <<mt, side>>

ExecuteBegin ==
    /\ calls < MaxCalls
    /\ \E h \in Histories, det \in BOOLEAN, k \in 1 .. Min(MaxIter, MaxTotal - used) : Begin(h, det, k)

CanLockAlways(node) == TRUE

\* the mutex of MCTSNodeBaseMT::LockGuard is free
CanLock(node) == node.lock = 0

Unlocked(ns, node) == IF mt THEN [ns EXCEPT ![node].lock = 0] ELSE ns

ToBackpropSkip(r) == [r EXCEPT !.pc = "iterDone", !.idx = 0]

\* the head of backprop: it = visited_nodes.begin(), it != visited_nodes.end()
ToBackprop(r) ==
    IF r.visited = <<>> THEN [r EXCEPT !.pc = "iterDone", !.idx = 0]
    ELSE [r EXCEPT !.pc = "bpN", !.idx = 1]

\* while (!state.isFinished()) and if (node->N == 0), or the evaluation of a
\* terminating state after the loop
LoopTest(t) ==
    /\ th[t].pc = "loop"
    /\ IF isFinished(th[t].state)
       THEN \E w \in WVals :
               th' = [th EXCEPT ![t] = ToBackprop([th[t] EXCEPT !.W = w])]
       ELSE IF nodes[th[t].node].N = 0
            THEN th' = [th EXCEPT ![t].pc = IF mt THEN "lock" ELSE "check"]
            ELSE th' = [th EXCEPT ![t].pc = "selBegin"]
    /\ UNCHANGED <<nodes, mt, side, mpc, call, iterNext, ret, calls, used, g>>

\* LockGuard guard(*node)
Lock(t) ==
    /\ th[t].pc = "lock"
    /\ CanLock(nodes[th[t].node])
    /\ nodes' = [nodes EXCEPT ![th[t].node].lock = t]
    /\ th' = [th EXCEPT ![t].pc = "check"]
    /\ UNCHANGED <<mt, side, mpc, call, iterNext, ret, calls, used, g>>

\* if (getChildCount(node) == 0): getPossibleActions and computeMCTS_WP;
\* otherwise the guard goes out of scope and selection follows
Check(t) ==
    /\ th[t].pc = "check"
    /\ IF getChildCount(nodes, th[t].node) = 0
       THEN LET acts == getPossibleActions(th[t].state)
            IN  /\ \E P \in PriorVecs(Len(acts)), w \in WVals :
                      LET r == [th[t] EXCEPT !.acts = acts, !.P = P, !.W = w,
                                             !.idx = 1, !.expanded = th[t].node,
                                             !.pc = "expand"]
                      IN  th' = [th EXCEPT ![t] = IF acts = <<>> THEN ToBackprop(r)
                                                  ELSE r]
                /\ nodes' = IF acts = <<>> THEN Unlocked(nodes, th[t].node) ELSE nodes
                /\ g' = [g EXCEPT !.exps = Append(@, [node |-> th[t].node,
                                                       acts |-> acts, by |-> t]),
                                  !.expd = @ \cup {th[t].node}]
       ELSE /\ th' = [th EXCEPT ![t].pc = "selBegin"]
            /\ nodes' = Unlocked(nodes, th[t].node)
            /\ g' = g
    /\ UNCHANGED <<mt, side, mpc, call, iterNext, ret, calls, used>>

\* computeMCTS_WP throws (Bad Reply) under the guard of the node. No caller
\* catches: execute ends by the exception and the program is terminated;
\* whether the stack is unwound first, which is what would run the
\* destructor of the guard, is left to the implementation. The other
\* threads run on until the process is gone, but take no further iteration
PriorsFail(t) ==
    /\ th[t].pc = "check"
    /\ getChildCount(nodes, th[t].node) = 0
    /\ \E unwinds \in BOOLEAN :
          nodes' = IF unwinds THEN Unlocked(nodes, th[t].node) ELSE nodes
    /\ th' = [th EXCEPT ![t].pc = "failed"]
    /\ mpc' = "aborted"
    /\ UNCHANGED <<mt, side, call, iterNext, ret, calls, used, g>>

\* NodePtr n = TTree::addNode(node, actions[i])
AddChild(t) ==
    /\ th[t].pc = "expand"
    /\ nodes' = addNode(nodes, th[t].node, th[t].acts[th[t].idx])
    /\ th' = [th EXCEPT ![t].n = Len(nodes) + 1, ![t].pc = "setP"]
    /\ UNCHANGED <<mt, side, mpc, call, iterNext, ret, calls, used, g>>

LastActionEarly(i, nActions) == i >= nActions - 1

\* the loop bound of the expansion: i < nActions
LastAction(i, nActions) == i >= nActions

\* n->P = P[i]; after the last one policy returns and the guard is released
SetP(t) ==
    /\ th[t].pc = "setP"
    /\ LET ns == [nodes EXCEPT ![th[t].n].P = th[t].P[th[t].idx]]
       IN  IF LastAction(th[t].idx, Len(th[t].acts))
           THEN /\ nodes' = Unlocked(ns, th[t].node)
                /\ th' = [th EXCEPT ![t] = ToBackprop(th[t])]
           ELSE /\ nodes' = ns
                /\ th' = [th EXCEPT ![t].pc = "expand", ![t].idx = @ + 1]
    /\ UNCHANGED <<mt, side, mpc, call, iterNext, ret, calls, used, g>>

DescendNoisy(r, ns, best) ==
    [r EXCEPT !.pc = "loop", !.node = best,
              !.visited = Append(@, best),
              !.state = update(@, ns[best].action),
              !.idx = 0, !.M = 0, !.best = 0,
              !.bestVal = IdleThread.bestVal]

DescendNoPush(r, ns, best) ==
    [r EXCEPT !.pc = "loop", !.ratio4 = RatioChild4, !.node = best,
              !.state = update(@, ns[best].action),
              !.idx = 0, !.M = 0, !.best = 0,
              !.bestVal = IdleThread.bestVal]

\* the end of one pass of the selection loop: ratio = 1.0, node = best,
\* visited_nodes.push_back(node), state.update(node->action)
Descend(r, ns, best) ==
    [r EXCEPT !.pc = "loop", !.ratio4 = RatioChild4, !.node = best,
              !.visited = Append(@, best),
              !.state = update(@, ns[best].action),
              !.idx = 0, !.M = 0, !.best = 0,
              !.bestVal = IdleThread.bestVal]

\* best = node, best_val = -max, subRootVisitSqrt from node->N
SelBegin(t) ==
    /\ th[t].pc = "selBegin"
    /\ LET r == [th[t] EXCEPT !.M = SqrtArg(nodes[th[t].node].N),
                              !.best = th[t].node, !.idx = 1, !.pc = "selChild"]
       IN  th' = [th EXCEPT ![t] = IF getChildCount(nodes, th[t].node) = 0
                                   THEN Descend(r, nodes, th[t].node)
                                   ELSE r]
    /\ UNCHANGED <<nodes, mt, side, mpc, call, iterNext, ret, calls, used, g>>

BetterOrEqual(r, val) == r.best = r.node \/ ~UCBLess(val, r.bestVal, r.M)

\* if (best_val < val); best_val starts at -max, below every value
Better(r, val) == r.best = r.node \/ UCBLess(r.bestVal, val, r.M)

\* one pass of the loop over the children: getUCB and the comparison
SelChild(t) ==
    /\ th[t].pc = "selChild"
    /\ LET r == th[t]
           child == nodes[r.node].childs[r.idx]
           i == (r.idx - 1) % Len(r.dirichlet)
           val == getUCB(nodes[child], r.ratio4, r.dirichlet[i + 1])
           better == Better(r, val)
           r2 == IF better THEN [r EXCEPT !.best = child, !.bestVal = val] ELSE r
       IN  th' = [th EXCEPT ![t] = IF r.idx >= getChildCount(nodes, r.node)
                                   THEN Descend(r2, nodes, r2.best)
                                   ELSE [r2 EXCEPT !.idx = @ + 1]]
    /\ UNCHANGED <<nodes, mt, side, mpc, call, iterNext, ret, calls, used, g>>

\* the position after the W of visited_nodes[idx] has been added
AfterW(r) ==
    IF r.idx >= Len(r.visited)
    THEN [r EXCEPT !.pc = "iterDone", !.idx = 0, !.prev = 0, !.next = 0]
    ELSE [r EXCEPT !.pc = "bpN", !.idx = @ + 1, !.prev = 0, !.next = 0]

\* node.N++
BpN(t) ==
    /\ th[t].pc = "bpN"
    /\ nodes' = [nodes EXCEPT ![th[t].visited[th[t].idx]].N = @ + 1]
    /\ th' = [th EXCEPT ![t].pc = IF mt THEN "bpLoad" ELSE "bpW"]
    /\ g' = IF ~mt /\ th[t].idx = 1 THEN [g EXCEPT !.bp0 = nodes] ELSE g
    /\ UNCHANGED <<mt, side, mpc, call, iterNext, ret, calls, used>>

GhostW(t) ==
    LET g1 == IF th[t].visited[th[t].idx] = call.subroot
              THEN [g EXCEPT !.sumW = @ + th[t].W] ELSE g
    IN  IF th[t].idx < Len(th[t].visited) THEN g1
        ELSE [g1 EXCEPT !.ends = [n \in DOMAIN g.ends \cup {th[t].node} |->
                                    EndsAt(g, n) + (IF n = th[t].node THEN 1 ELSE 0)]]

\* node.W += W on the plain double of MCTSNodeBase
BpW(t) ==
    /\ th[t].pc = "bpW"
    /\ nodes' = [nodes EXCEPT ![th[t].visited[th[t].idx]].W = @ + th[t].W]
    /\ th' = [th EXCEPT ![t] = AfterW(th[t])]
    /\ g' = GhostW(t)
    /\ UNCHANGED <<mt, side, mpc, call, iterNext, ret, calls, used>>

\* MyAtomicDouble::operator+= : double prev = value; double next = prev + val
BpLoad(t) ==
    /\ th[t].pc = "bpLoad"
    /\ LET v == nodes[th[t].visited[th[t].idx]].W
       IN  th' = [th EXCEPT ![t].prev = v, ![t].next = v + th[t].W,
                            ![t].pc = "bpCAS"]
    /\ UNCHANGED <<nodes, mt, side, mpc, call, iterNext, ret, calls, used, g>>

\* while (!value.compare_exchange_weak(prev, next)) {} : a failed exchange
\* loads the current value into prev, and next stays as it was computed
BpCAS(t) ==
    /\ th[t].pc = "bpCAS"
    /\ LET node == th[t].visited[th[t].idx]
       IN  IF nodes[node].W = th[t].prev
           THEN /\ nodes' = [nodes EXCEPT ![node].W = th[t].next]
                /\ th' = [th EXCEPT ![t] = AfterW(th[t])]
                /\ g' = GhostW(t)
           ELSE /\ th' = [th EXCEPT ![t].prev = nodes[node].W]
                /\ UNCHANGED <<nodes, g>>
    /\ UNCHANGED <<mt, side, mpc, call, iterNext, ret, calls, used>>

EarlyExitStochastic(childCount, det) == childCount = 1 /\ ~det

\* only one choice, dont think
EarlyExit(childCount, det) == childCount = 1 /\ det

EarlyActionSelf(ns, subroot) == ns[subroot].action

\* NodePtr child = getChildIterator(subroot).next(); return child->action
EarlyAction(ns, subroot) == ns[ns[subroot].childs[1]].action

\* after backprop of the warm iteration
WarmDone ==
    /\ mpc = "warm"
    /\ th[1].pc = "iterDone"
    /\ th' = [th EXCEPT ![1] = IdleThread]
    /\ IF EarlyExit(getChildCount(nodes, call.subroot), call.det)
       THEN /\ ret' = EarlyAction(nodes, call.subroot)
            /\ mpc' = "done"
            /\ g' = [g EXCEPT !.early = TRUE, !.bp0 = <<>>,
                              !.kidsW = getChildCount(nodes, call.subroot)]
       ELSE /\ mpc' = "fanout"
            /\ ret' = ret
            /\ g' = [g EXCEPT !.kidsW = getChildCount(nodes, call.subroot), !.bp0 = <<>>]
    /\ UNCHANGED <<nodes, mt, side, call, iterNext, calls, used>>

ChunkNextSkip(i, n) == i + n + 1

\* the first iteration of the omp loop after a chunk of n from i
ChunkNext(i, n) == i + n

\* iterations an idle thread takes from the loop when `rest` are left: a
\* chunk of the dynamic schedule in the OpenMP build, the whole loop in the
\* build without OpenMP, where the pragma has no effect
ChunkLen(rest) == IF mt THEN Min(ChunkSize, rest) ELSE rest

\* omp parallel for schedule(dynamic, 6): an idle thread takes the next chunk
\* of the loop for (i = 1; i < policyIter; ++i) and starts its first iteration
TakeChunk(t) ==
    /\ mpc = "fanout"
    /\ th[t].pc = "idle"
    /\ iterNext < call.policyIter
    /\ LET n == ChunkLen(call.policyIter - iterNext)
       IN  /\ iterNext' = ChunkNext(iterNext, n)
           /\ \E d \in DirichletVecs(getChildCount(nodes, call.subroot)) :
                 th' = [th EXCEPT ![t] = IterLocals(call.subroot, call.cstate, d, n - 1)]
    /\ g' = [g EXCEPT !.fan = @ + 1, !.ran[t] = @ + 1,
                      !.conc = @ \/ \E u \in Threads : th[u].pc # "idle"]
    /\ UNCHANGED <<nodes, mt, side, mpc, call, ret, calls, used>>

\* the end of one iteration of the omp loop: the next one of the chunk, or
\* back to the scheduler
NextIter(t) ==
    /\ mpc = "fanout"
    /\ th[t].pc = "iterDone"
    /\ IF th[t].left > 0
       THEN /\ \E d \in DirichletVecs(getChildCount(nodes, call.subroot)) :
                  th' = [th EXCEPT ![t] = IterLocals(call.subroot, call.cstate, d,
                                                     th[t].left - 1)]
            /\ g' = [g EXCEPT !.fan = @ + 1, !.ran[t] = @ + 1, !.bp0 = <<>>]
       ELSE /\ th' = [th EXCEPT ![t] = IdleThread]
            /\ g' = [g EXCEPT !.bp0 = <<>>]
    /\ UNCHANGED <<nodes, mt, side, mpc, call, iterNext, ret, calls, used>>

\* after the omp loop: the action selector; the stochastic one also stores
\* the training sample
ExecuteEnd ==
    /\ mpc = "fanout"
    /\ iterNext >= call.policyIter
    /\ \A t \in Threads : th[t].pc = "idle"
    /\ IF call.det
       THEN /\ ret' = selectMoveDeterministic(nodes, call.subroot)
            /\ g' = g
       ELSE /\ \E a \in selectMoveStochastic(nodes, call.subroot) : ret' = a
            /\ g' = [g EXCEPT !.samples = @ + 1, !.stored = @ + 1,
                              !.piAction = piAction(nodes, call.subroot,
                                                    Tau100(Len(call.history)))]
    /\ mpc' = "done"
    /\ UNCHANGED <<nodes, mt, side, call, iterNext, th, calls, used>>

\* execute has returned; the caller may call it again
Return ==
    /\ mpc = "done"
    /\ mpc' = "idle"
    /\ call' = NoCall
    /\ ret' = NoAct
    /\ iterNext' = 0
    /\ g' = Kept(g)
    /\ UNCHANGED <<nodes, mt, side, th, calls, used>>

Next ==
    \/ ExecuteBegin
    \/ LoopTest(1)
    \/ Check(1)
    \/ PriorsFail(1)
    \/ AddChild(1)
    \/ SetP(1)
    \/ SelBegin(1)
    \/ SelChild(1)
    \/ BpN(1)
    \/ BpW(1)
    \/ WarmDone
    \/ TakeChunk(1)
    \/ NextIter(1)
    \/ ExecuteEnd
    \/ Return

Spec == Init /\ [][Next]_vars

\* the OpenMP build: main.cpp makes the same calls on a tree of
\* MCTSNodeBaseMT nodes
ExecuteBeginMT ==
    /\ calls < MaxCallsMT
    /\ \E h \in Histories, det \in BOOLEAN, k \in 1 .. MaxIterMT : Begin(h, det, k)

NextMT ==
    \/ ExecuteBeginMT
    \/ \E t \in Threads : LoopTest(t)
    \/ \E t \in Threads : Lock(t)
    \/ \E t \in Threads : Check(t)
    \/ \E t \in Threads : PriorsFail(t)
    \/ \E t \in Threads : AddChild(t)
    \/ \E t \in Threads : SetP(t)
    \/ \E t \in Threads : SelBegin(t)
    \/ \E t \in Threads : SelChild(t)
    \/ \E t \in Threads : BpN(t)
    \/ \E t \in Threads : BpLoad(t)
    \/ \E t \in Threads : BpCAS(t)
    \/ WarmDone
    \/ \E t \in Threads : TakeChunk(t)
    \/ \E t \in Threads : NextIter(t)
    \/ ExecuteEnd
    \/ Return

SpecMT == InitMT /\ [][NextMT]_vars

\* the steps thread t takes by itself: one iteration of policy and backprop
\* after the other. A throw of computeMCTS_WP is not among them: it is the
\* priors service that brings it about
ThreadStep(t) ==
    \/ LoopTest(t)
    \/ Lock(t)
    \/ Check(t)
    \/ AddChild(t)
    \/ SetP(t)
    \/ SelBegin(t)
    \/ SelChild(t)
    \/ BpN(t)
    \/ BpLoad(t)
    \/ BpCAS(t)
    \/ TakeChunk(t)
    \/ NextIter(t)

\* the OpenMP build with threads that run on: no thread that can take a
\* step is held back for ever
SpecMTFair == SpecMT /\ \A t \in 1 .. MTWorkers : WF_vars(ThreadStep(t))

(* ------------------- the storage layouts, side by side ------------------ *)
\* one addNode call, made on each of the three layouts
TreeAdd ==
    /\ Len(store.dyn) <= MaxTreeAdds
    /\ \E p \in 0 .. (Len(store.dyn) - 1), act \in TreeActs :
           LET a == ArrAdd(store.arr, p, act)
           IN  store' = [store EXCEPT !.dyn = DynAdd(store.dyn, p, act),
                                      !.arr = a.v,
                                      !.lst = LstAdd(store.lst, p, act),
                                      !.ins = Append([@ EXCEPT ![p + 1] = Append(@, Len(store.dyn))],
                                                     <<>>),
                                      !.oob = @ \/ a.oob,
                                      !.it = NoIter]
    /\ UNCHANGED <<engine, fn, sink, ro, wp, csv, cli, chess, pol>>

\* getChildCount and one run of the child iterator of node p, on each layout
TreeIterate ==
    /\ \E p \in 0 .. (Len(store.dyn) - 1) :
         \E o \in ArrIterFrom(store.arr, p, 0), c \in ArrIterFrom(store.arr, p, 0) :
           LET l == LstIterFrom(store.lst, At(store.lst, p).child_head)
           IN  store' = [store EXCEPT !.it = [node |-> p,
                                              dyn |-> DynIter(store.dyn, p),
                                              arr |-> o.yield, slots |-> o.slots,
                                              lst |-> l,
                                              dynCount |-> Len(At(store.dyn, p).childs),
                                              arrCount |-> Len(c.yield),
                                              lstCount |-> Len(l)]]
    /\ UNCHANGED <<engine, fn, sink, ro, wp, csv, cli, chess, pol>>

NextTree ==
    \/ TreeAdd
    \/ TreeIterate

SpecTree == Init /\ [][NextTree]_vars

(* ------------------ functions of the engine, on their own --------------- *)
InitFn ==
    /\ InitEngine
    /\ store = InitStore
    /\ fn \in [op : {"none"}, in : 0 .. MaxArg, out : {0}]
    /\ sink = NoSink
    /\ pol = NoPol
    /\ chess = NoChess
    /\ cli = NoCli
    /\ csv = NoCsv
    /\ wp = NoWp
    /\ ro = NoRo

\* policy: the argument of the square root in subRootVisitSqrt, for a node
\* whose N is fn.in
SubRootVisitSqrt ==
    /\ fn' = [fn EXCEPT !.op = "sqrtArg", !.out = SqrtArg(fn.in)]
    /\ UNCHANGED <<engine, store, sink, ro, wp, csv, cli, chess, pol>>

\* execute, stochastic branch: tau for a history of fn.in actions
TauOfHistory ==
    /\ fn' = [fn EXCEPT !.op = "tau", !.out = Tau100(fn.in)]
    /\ UNCHANGED <<engine, store, sink, ro, wp, csv, cli, chess, pol>>

NextFn ==
    \/ SubRootVisitSqrt
    \/ TauOfHistory

SpecFn == InitFn /\ [][NextFn]_vars

(* ------------------------- the sink of samples -------------------------- *)
\* the bytes a reply is made of: the two of the acknowledgement and another
ReplyBytes == {AckByte0, AckByte1, 0}

RECURSIVE ByteSeqs(_)
ByteSeqs(n) ==
    IF n = 0 THEN {<<>>}
    ELSE {<<>>} \cup {<<b>> \o r : b \in ReplyBytes, r \in ByteSeqs(n - 1)}

\* what the sink may answer
Replies == ByteSeqs(MaxReplyLen)

\* memcpy(ok, reply.data(), 2): the two bytes copied; a byte the reply does
\* not have is read from outside the message and may be anything
Read2(reply) ==
    {ok \in ReplyBytes \X ReplyBytes :
        \A i \in 1 .. 2 : i <= Len(reply) => ok[i] = reply[i]}

\* if (ok[0] != 4 || ok[1] != 2) throw: the test that lets the call go on
Accepts(reply, ok) == ok[1] = AckByte0 /\ ok[2] = AckByte1

\* socket.send(request1)
SendGame ==
    /\ sink.pc = "sendGame"
    /\ sink' = [sink EXCEPT !.pc = "recvGame", !.sent = Append(@, "state")]
    /\ UNCHANGED <<engine, store, fn, ro, wp, csv, cli, chess, pol>>

\* socket.recv(&reply) and the test of the first reply
RecvGame ==
    /\ sink.pc = "recvGame"
    /\ \E reply \in Replies : \E ok \in Read2(reply) :
          sink' = [sink EXCEPT !.pc = IF Accepts(reply, ok) THEN "sendPolicy" ELSE "error",
                               !.replies = Append(@, reply)]
    /\ UNCHANGED <<engine, store, fn, ro, wp, csv, cli, chess, pol>>

\* socket.send(request2)
SendPolicy ==
    /\ sink.pc = "sendPolicy"
    /\ sink' = [sink EXCEPT !.pc = "recvPolicy", !.sent = Append(@, "policy")]
    /\ UNCHANGED <<engine, store, fn, ro, wp, csv, cli, chess, pol>>

\* socket.recv(&reply) and the test of the second reply
RecvPolicy ==
    /\ sink.pc = "recvPolicy"
    /\ \E reply \in Replies : \E ok \in Read2(reply) :
          sink' = [sink EXCEPT !.pc = IF Accepts(reply, ok) THEN "stored" ELSE "error",
                               !.replies = Append(@, reply)]
    /\ UNCHANGED <<engine, store, fn, ro, wp, csv, cli, chess, pol>>

NextSink ==
    \/ SendGame
    \/ RecvGame
    \/ SendPolicy
    \/ RecvPolicy

SpecSink == Init /\ [][NextSink]_vars

(* ---------------- the rollout engine: one loop iteration ---------------- *)
InitRo ==
    /\ InitEngine
    /\ store = InitStore
    /\ fn = NoFn
    /\ sink = NoSink
    /\ pol = NoPol
    /\ chess = NoChess
    /\ cli = NoCli
    /\ csv = NoCsv
    /\ wp = NoWp
    /\ \E R \in 0 .. MaxRolloutIter, d \in 0 .. MaxRolloutDepth, gpu \in BOOLEAN :
          ro = [NoRo EXCEPT !.rolloutIter = R, !.maxRolloutDepth = d, !.hasGPU = gpu]

\* NodePtr node = policy(subroot, state, ...): selection down to a leaf, its
\* expansion; state is left at the leaf
RoPolicy ==
    /\ ro.pc = "policy"
    /\ \E h \in Histories :
          ro' = [ro EXCEPT !.pc = "backprop", !.state = Replay(InitState, h),
                           !.leaf = Replay(InitState, h),
                           !.log = <<"selection", "expansion">>]
    /\ UNCHANGED <<engine, store, fn, sink, wp, csv, cli, chess, pol>>

\* backprop(policyNodes, W); if (rolloutIter == 0) continue
RoBackprop ==
    /\ ro.pc = "backprop"
    /\ ro' = [ro EXCEPT !.pc = IF ro.rolloutIter = 0 THEN "done" ELSE "branch",
                         !.log = Append(@, "backup")]
    /\ UNCHANGED <<engine, store, fn, sink, wp, csv, cli, chess, pol>>

\* cuRollout: the accelerator takes the batch of rollouts or declines it
CuRolloutResults == BOOLEAN

\* if (hasGPU() && rolloutIter != 1 && cuRollout(...)) ... else ...
RoBranch ==
    /\ ro.pc = "branch"
    /\ IF ro.hasGPU /\ ro.rolloutIter # 1
       THEN \E accepted \in CuRolloutResults :
               ro' = IF accepted
                     THEN [ro EXCEPT !.pc = "gpuBackprop", !.path = "gpu", !.j = 0,
                                     !.log = Append(@, "rollout")]
                     ELSE [ro EXCEPT !.pc = "cpuLoop", !.path = "cpu", !.j = 0]
       ELSE ro' = [ro EXCEPT !.pc = "cpuLoop", !.path = "cpu", !.j = 0]
    /\ UNCHANGED <<engine, store, fn, sink, wp, csv, cli, chess, pol>>

GpuBackupsOnce(rolloutIter) == 1

\* for (unsigned int j = 0; j < rolloutIter; ++j): the bound of the loop
GpuBackups(rolloutIter) == rolloutIter

\* one pass of the loop of backprops after the accelerator's batch
RoGpuBackprop ==
    /\ ro.pc = "gpuBackprop"
    /\ ro' = IF ro.j < GpuBackups(ro.rolloutIter)
             THEN [ro EXCEPT !.j = @ + 1, !.backups = @ + 1, !.log = Append(@, "backup")]
             ELSE [ro EXCEPT !.pc = "done"]
    /\ UNCHANGED <<engine, store, fn, sink, wp, csv, cli, chess, pol>>

\* the head of the CPU loop: TProblem rstate(state), int depth = 0
RoCpuCopy ==
    /\ ro.pc = "cpuLoop"
    /\ ro' = IF ro.j < ro.rolloutIter
             THEN [ro EXCEPT !.pc = "rollout", !.rstate = ro.state, !.depth = 0,
                             !.applied = 0, !.copies = @ + 1,
                             !.ownCopy = @ /\ ro.state = ro.leaf]
             ELSE [ro EXCEPT !.pc = "done"]
    /\ UNCHANGED <<engine, store, fn, sink, wp, csv, cli, chess, pol>>

\* one pass of while (!state.isFinished()) in rollout
RoRolloutStep ==
    /\ ro.pc = "rollout"
    /\ IF isFinished(ro.rstate) \/ ro.depth + 1 = ro.maxRolloutDepth
       THEN ro' = [ro EXCEPT !.pc = "cpuBackprop", !.rollouts = @ + 1,
                             !.depth = IF isFinished(ro.rstate) THEN @ ELSE @ + 1,
                             !.log = Append(@, "rollout")]
       ELSE \E pick \in 1 .. Len(getPossibleActions(ro.rstate)) :
               ro' = [ro EXCEPT !.depth = @ + 1, !.applied = @ + 1,
                                !.rstate = update(@, getPossibleActions(ro.rstate)[pick])]
    /\ UNCHANGED <<engine, store, fn, sink, wp, csv, cli, chess, pol>>

\* W = rstate.computeMCTS_W(idxAi); backprop(policyNodes, W)
RoCpuBackprop ==
    /\ ro.pc = "cpuBackprop"
    /\ ro' = [ro EXCEPT !.pc = "cpuLoop", !.j = @ + 1, !.backups = @ + 1,
                         !.log = Append(@, "backup")]
    /\ UNCHANGED <<engine, store, fn, sink, wp, csv, cli, chess, pol>>

NextRo ==
    \/ RoPolicy
    \/ RoBackprop
    \/ RoBranch
    \/ RoGpuBackprop
    \/ RoCpuCopy
    \/ RoRolloutStep
    \/ RoCpuBackprop

SpecRo == InitRo /\ [][NextRo]_vars

(* ------------- execute and policy over the Problem interface ------------ *)
\* The engine is a template over TProblem. Here the Problem is given by what
\* policy asks of it: a state that is not finished has nActions actions and
\* the game is finished endDepth half-moves below the sub-root; or, stuck,
\* the state at the sub-root is not finished, getPossibleActions returns no
\* action for it, and update leaves it as it is. Of the tree, the node
\* policy stands on is kept: its depth below the sub-root, N, child count.
InitPol ==
    /\ InitEngine
    /\ store = InitStore
    /\ fn = NoFn
    /\ sink = NoSink
    /\ chess = NoChess
    /\ cli = NoCli
    /\ csv = NoCsv
    /\ wp = NoWp
    /\ ro = NoRo
    /\ \E k \in 1 .. MaxPolIter, det \in BOOLEAN, n \in 1 .. MaxWpActions,
          d \in 1 .. MaxPolDepth, stuck \in BOOLEAN, seen \in 0 .. 1 :
          LET c == IF seen = 0 \/ stuck THEN 0 ELSE n
          IN  pol = [NoPol EXCEPT !.policyIter = k, !.det = det, !.nActions = n,
                                  !.endDepth = d, !.stuck = stuck,
                                  !.N = seen, !.childs = c,
                                  !.rootN = seen, !.rootChilds = c]

\* state.isFinished() at the node policy stands on
PolFinished(r) == ~r.stuck /\ r.depth >= r.endDepth

\* state.getPossibleActions(...) at the node policy stands on
PolActions(r) == IF r.stuck THEN 0 ELSE r.nActions

\* node = best, after the loop over the children: best was set to node and
\* stays node when the loop has found no child
PolBest(r) == IF r.childs = 0 THEN r.depth ELSE r.depth + 1

\* one pass of while (!state.isFinished()) in policy, or the end of policy
PolicyPass ==
    /\ pol.pc = "policy"
    /\ IF PolFinished(pol)
       THEN pol' = [pol EXCEPT !.pc = "backprop"]
       ELSE IF pol.N = 0 /\ pol.childs = 0
       THEN pol' = [pol EXCEPT !.pc = "backprop", !.childs = PolActions(pol),
                               !.rootChilds = IF pol.depth = 0 THEN PolActions(pol) ELSE @]
       ELSE IF PolBest(pol) = pol.depth
       THEN pol' = [pol EXCEPT !.visited = Min(@ + 1, MaxPolVisited)]
       ELSE \E seen \in 0 .. 1 :
               LET below == [pol EXCEPT !.depth = PolBest(pol)]
               IN  pol' = [below EXCEPT !.visited = Min(@ + 1, MaxPolVisited),
                                        !.N = seen,
                                        !.childs = IF seen = 0 \/ PolFinished(below)
                                                   THEN 0 ELSE PolActions(below)]
    /\ UNCHANGED <<engine, store, fn, sink, chess, cli, csv, wp, ro>>

\* backprop, then the early return after the warm iteration, the next
\* iteration of the loop, or the end of execute
PolBackprop ==
    /\ pol.pc = "backprop"
    /\ LET it == pol.iter + 1
           early == it = 1 /\ pol.rootChilds = 1 /\ pol.det
       IN  pol' = [pol EXCEPT !.iter = it, !.rootN = @ + 1,
                              !.pc = IF early \/ it >= pol.policyIter THEN "done" ELSE "policy",
                              !.depth = 0, !.N = pol.rootN + 1,
                              !.childs = pol.rootChilds, !.visited = 1]
    /\ UNCHANGED <<engine, store, fn, sink, chess, cli, csv, wp, ro>>

NextPol ==
    \/ PolicyPass
    \/ PolBackprop

SpecPol == InitPol /\ [][NextPol]_vars

\* the thread that called execute runs on
SpecPolFair == SpecPol /\ WF_vars(NextPol)

(* -------------------------------- Chess --------------------------------- *)
\* the figures on the board: of each player the king, figures[idxAi*16], and
\* the two rooks, figures[idxAi*16+2] and figures[idxAi*16+3]; every other
\* figure has been taken (type Unset) and is left out
SlotsOf(idxAi) == <<idxAi * 16, idxAi * 16 + 2, idxAi * 16 + 3>>

ChessSlots == {0, 2, 3, 16, 18, 19}

\* Chess::Chess: the figures on their first squares, firstMoved = 0
ChessFigures ==
    [i \in ChessSlots |->
        [type |-> IF i % 16 = 0 THEN FigKing ELSE FigRook,
         playerIdx |-> i \div 16,
         firstMoved |-> 0,
         posX |-> IF i % 16 = 0 THEN 4 ELSE IF i % 16 = 2 THEN 0 ELSE 7,
         posY |-> IF i \div 16 = 0 THEN 0 ELSE 7]]

ChessAct(fromX, fromY, toX, toY, type) ==
    [type |-> type, toX |-> toX, toY |-> toY, fromX |-> fromX, fromY |-> fromY]

ChessGetPlayer(time) == time % 2

\* set up dense board: the figure on square (x, y), the last one in the
\* order of the figures if there were several
BoardAt(figs, x, y) ==
    LET on == {i \in ChessSlots : figs[i].type # FigUnset /\ figs[i].posX = x /\ figs[i].posY = y}
    IN  IF on = {} THEN [type |-> FigUnset, playerIdx |-> 0]
        ELSE LET i == CHOOSE k \in on : \A m \in on : m <= k
             IN  [type |-> figs[i].type, playerIdx |-> figs[i].playerIdx]

ChessInsideBoard(x, y, dx, dy) == 0 <= x + dx /\ x + dx < 8 /\ 0 <= y + dy /\ y + dy < 8

isFree(figs, x, y, dx, dy) ==
    ChessInsideBoard(x, y, dx, dy) /\ BoardAt(figs, x + dx, y + dy).type = FigUnset

isOpponent(figs, idxAi, x, y, dx, dy) ==
    /\ ChessInsideBoard(x, y, dx, dy)
    /\ BoardAt(figs, x + dx, y + dy).type # FigUnset
    /\ BoardAt(figs, x + dx, y + dy).playerIdx # idxAi

CastlingRookXSame(toX, fromX) == toX

\* the file the rook is put on: act.toX+((act.toX<act.fromX)?1:-1)
CastlingRookX(toX, fromX) == toX + (IF toX < fromX THEN 1 ELSE -1)

\* Chess::update, the body of the loop for the figure i of the player to
\* move, when that figure stands on the from square
UpdateFigure(s, act, i) ==
    LET idxAi == ChessGetPlayer(s.time)
        idxOp == ChessGetPlayer(s.time + 1)
        moved == [s.figures EXCEPT ![i].posX = act.toX, ![i].posY = act.toY,
                                   ![i].firstMoved = IF @ = 0 THEN s.time + 1 ELSE @]
        hit == {k \in ChessSlots : /\ k \div 16 = idxOp
                                    /\ moved[k].type # FigUnset
                                    /\ moved[k].posX = act.toX /\ moved[k].posY = act.toY}
        taken == [k \in ChessSlots |->
                     IF k \in hit THEN [moved[k] EXCEPT !.type = FigUnset] ELSE moved[k]]
        rook == idxAi * 16 + (IF act.toX < act.fromX THEN 2 ELSE 3)
        figs == CASE act.type = "Castling" ->
                       [taken EXCEPT ![rook].posX = CastlingRookX(act.toX, act.fromX),
                                     ![rook].firstMoved = s.time + 1]
                  [] act.type = "CheckMate" -> [taken EXCEPT ![idxAi * 16].type = FigUnset]
                  [] act.type = "Even" -> [taken EXCEPT ![idxAi * 16].type = FigUnset,
                                                        ![idxOp * 16].type = FigUnset]
                  [] OTHER -> taken
    IN  [s EXCEPT !.figures = figs,
                  !.timeLastProgress = IF hit # {} THEN s.time ELSE @]

\* Chess::update, the loop over the figures of the player to move from the
\* k-th on
RECURSIVE UpdateLoop(_, _, _)
UpdateLoop(s, act, k) ==
    LET slots == SlotsOf(ChessGetPlayer(s.time))
    IN  IF k > Len(slots) THEN s
        ELSE LET f == s.figures[slots[k]]
             IN  IF f.type # FigUnset /\ f.posX = act.fromX /\ f.posY = act.fromY
                 THEN UpdateLoop(UpdateFigure(s, act, slots[k]), act, k + 1)
                 ELSE UpdateLoop(s, act, k + 1)

\* Chess::update
ChessUpdate(s, act) == [UpdateLoop(s, act, 1) EXCEPT !.time = @ + 1]

ChessIsFinished(s) == s.figures[0].type = FigUnset \/ s.figures[16].type = FigUnset

RECURSIVE ChessGetPossibleActions(_, _, _)

\* the lambda isKingInCheck: the move is made on a copy, update is called
\* twice, and the actions of the player then to move are looked through for
\* one that ends on the king of idxAi
isKingInCheck(s, idxAi, checkKing, x, y, dx, dy, type) ==
    IF ~checkKing THEN FALSE
    ELSE LET testAction == ChessAct(x, y, x + dx, y + dy, type)
             copy == ChessUpdate(ChessUpdate(s, testAction), testAction)
             king == copy.figures[idxAi * 16]
         IN  \E a \in ChessGetPossibleActions(copy, ChessGetPlayer(copy.time), FALSE) :
                 a.toX = king.posX /\ a.toY = king.posY

\* the lambda addMove: the actions it appends
addMove(s, idxAi, checkKing, x, y, dx, dy, type) ==
    IF /\ isFree(s.figures, x, y, dx, dy) \/ isOpponent(s.figures, idxAi, x, y, dx, dy)
       /\ ~isKingInCheck(s, idxAi, checkKing, x, y, dx, dy, type)
    THEN {ChessAct(x, y, x + dx, y + dy, type)}
    ELSE {}

\* the lambda scanLine in direction (sx, sy): free squares, then at most one
\* square of the opponent
ChessScanLine(s, idxAi, checkKing, x, y, sx, sy) ==
    UNION {addMove(s, idxAi, checkKing, x, y, sx * n, sy * n, "Normal") :
              n \in {m \in 1 .. 7 : \A j \in 1 .. (m - 1) :
                                       isFree(s.figures, x, y, sx * j, sy * j)}}

castlingL(s, idxAi, checkKing, x, y) ==
    LET k == s.figures[idxAi * 16]
        r == s.figures[idxAi * 16 + 2]
        isKingMoved == k.type # FigKing \/ k.firstMoved # 0
        isRookMoved == r.type # FigRook \/ r.firstMoved # 0
    IN  /\ ~isKingMoved /\ ~isRookMoved
        /\ isFree(s.figures, x, y, -1, 0) /\ isFree(s.figures, x, y, -2, 0)
        /\ isFree(s.figures, x, y, -3, 0)
        /\ ~isKingInCheck(s, idxAi, checkKing, x, y, 0, 0, "Normal")
        /\ ~isKingInCheck(s, idxAi, checkKing, x, y, -1, 0, "Normal")
        /\ ~isKingInCheck(s, idxAi, checkKing, x, y, -2, 0, "Normal")

castlingR(s, idxAi, checkKing, x, y) ==
    LET k == s.figures[idxAi * 16]
        r == s.figures[idxAi * 16 + 3]
        isKingMoved == k.type # FigKing \/ k.firstMoved # 0
        isRookMoved == r.type # FigRook \/ r.firstMoved # 0
    IN  /\ ~isKingMoved /\ ~isRookMoved
        /\ isFree(s.figures, x, y, 1, 0) /\ isFree(s.figures, x, y, 2, 0)
        /\ ~isKingInCheck(s, idxAi, checkKing, x, y, 0, 0, "Normal")
        /\ ~isKingInCheck(s, idxAi, checkKing, x, y, 1, 0, "Normal")
        /\ ~isKingInCheck(s, idxAi, checkKing, x, y, 2, 0, "Normal")

\* the switch over the type of figure i of idxAi
FigureActions(s, idxAi, checkKing, i) ==
    LET x == s.figures[i].posX
        y == s.figures[i].posY
    IN  CASE s.figures[i].type = FigKing ->
                 UNION {addMove(s, idxAi, checkKing, x, y, dy, dx, "Normal") :
                           dy \in {-1, 0, 1}, dx \in {-1, 0, 1}}
                 \cup (IF castlingL(s, idxAi, checkKing, x, y)
                       THEN addMove(s, idxAi, checkKing, x, y, -2, 0, "Castling") ELSE {})
                 \cup (IF castlingR(s, idxAi, checkKing, x, y)
                       THEN addMove(s, idxAi, checkKing, x, y, 2, 0, "Castling") ELSE {})
          [] s.figures[i].type = FigRook ->
                 ChessScanLine(s, idxAi, checkKing, x, y, 0, 1)
                 \cup ChessScanLine(s, idxAi, checkKing, x, y, 0, -1)
                 \cup ChessScanLine(s, idxAi, checkKing, x, y, 1, 0)
                 \cup ChessScanLine(s, idxAi, checkKing, x, y, -1, 0)
          [] OTHER -> {}

\* Chess::getPossibleActions, as the set of the actions returned. No board
\* has stood three times within MaxPlies half-moves, so the test of the
\* repetitions is left out
ChessGetPossibleActions(s, idxAi, checkKing) ==
    LET king == s.figures[idxAi * 16]
        slots == SlotsOf(idxAi)
        acts == UNION {FigureActions(s, idxAi, checkKing, slots[k]) : k \in 1 .. Len(slots)}
    IN  IF s.time - s.timeLastProgress >= 100
        THEN {ChessAct(king.posX, king.posY, king.posX, king.posY, "Even")}
        ELSE IF acts = {} /\ checkKing
        THEN LET op == ChessGetPossibleActions(s, ChessGetPlayer(s.time + 1), FALSE)
                 checkmate == \E a \in op : a.toX = king.posX /\ a.toY = king.posY
             IN  {ChessAct(king.posX, king.posY, king.posX, king.posY,
                           IF checkmate THEN "CheckMate" ELSE "Even")}
        ELSE acts

InitChess ==
    /\ InitEngine
    /\ store = InitStore
    /\ fn = NoFn
    /\ sink = NoSink
    /\ pol = NoPol
    /\ cli = NoCli
    /\ csv = NoCsv
    /\ wp = NoWp
    /\ ro = NoRo
    /\ chess = [NoChess EXCEPT !.figures = ChessFigures]

\* one pass of the game loop of main: an action getPossibleActions offers
\* the player to move is applied with update
ChessPlay ==
    /\ chess.time < MaxPlies
    /\ ~ChessIsFinished(chess)
    /\ \E act \in ChessGetPossibleActions(chess, ChessGetPlayer(chess.time), TRUE) :
          LET s == ChessUpdate(chess, act)
          IN  chess' = [s EXCEPT !.prev = chess.figures, !.last = <<act>>]
    /\ UNCHANGED <<engine, store, fn, sink, cli, csv, wp, ro, pol>>

NextChess == ChessPlay

SpecChess == InitChess /\ [][NextChess]_vars

(* ------------------------- main: the command line ----------------------- *)
\* the tokens tried: two keys main knows, one it does not, the help flag,
\* a number and a word that is no number
Tokens == {"seed", "portW", "zz", "-h", "1", "x"}

RECURSIVE TokenSeqs(_)
TokenSeqs(n) ==
    IF n = 0 THEN {<<>>}
    ELSE TokenSeqs(n - 1) \cup {Append(a, k) : a \in {b \in TokenSeqs(n - 1) : Len(b) = n - 1},
                                               k \in Tokens}

InitCli ==
    /\ InitEngine
    /\ store = InitStore
    /\ fn = NoFn
    /\ sink = NoSink
    /\ pol = NoPol
    /\ chess = NoChess
    /\ csv = NoCsv
    /\ wp = NoWp
    /\ ro = NoRo
    /\ \E a \in TokenSeqs(MaxTokens) : cli = [NoCli EXCEPT !.argv = a]

\* argc: the tokens and the name of the program
Argc(a) == Len(a) + 1

KnownKeyAny(key) == TRUE

\* the keys of the if-chain of main
KnownKey(key) ==
    key \in {"writeTree", "deterministic", "seed", "workDir", "portW", "portB", "p0", "p1"}

\* the keys whose value goes through std::stoi
StoiKey(key) == key \in {"seed", "p0", "p1"}

\* std::stoi throws std::invalid_argument when no conversion can be made
StoiThrows(val) == val # "1"

\* the value main returns, as the host sees it: beyond 0 that is left to the
\* implementation, which keeps the low eight bits or the whole value
ExitStatuses(r) == {r % ExitMod, r}

\* main up to the loop over the keys
MainStart ==
    /\ cli.pc = "start"
    /\ IF Argc(cli.argv) = 2 /\ cli.argv[1] \in {"-h", "--help"}
       THEN \E st \in ExitStatuses(0) : cli' = [cli EXCEPT !.pc = "exited", !.status = <<st>>]
       ELSE IF Argc(cli.argv) % 2 = 0
       THEN \E st \in ExitStatuses(-1) : cli' = [cli EXCEPT !.pc = "exited", !.status = <<st>>]
       ELSE cli' = [cli EXCEPT !.pc = "parse", !.i = 1]
    /\ UNCHANGED <<engine, store, fn, sink, csv, wp, ro, chess, pol>>

\* one pass of for (int i = 1; i < argc; i+=2)
MainKey ==
    /\ cli.pc = "parse"
    /\ IF cli.i >= Argc(cli.argv)
       THEN cli' = [cli EXCEPT !.pc = "init"]
       ELSE LET key == cli.argv[cli.i]
                val == cli.argv[cli.i + 1]
            IN  IF ~KnownKey(key)
                THEN \E st \in ExitStatuses(-1) :
                        cli' = [cli EXCEPT !.pc = "exited", !.status = <<st>>]
                ELSE IF StoiKey(key) /\ StoiThrows(val)
                THEN cli' = [cli EXCEPT !.pc = "aborted"]
                ELSE cli' = [cli EXCEPT !.i = @ + 2]
    /\ UNCHANGED <<engine, store, fn, sink, csv, wp, ro, chess, pol>>

\* init program: the context, the state, the two engines
MainInit ==
    /\ cli.pc = "init"
    /\ cli' = [cli EXCEPT !.pc = "game", !.constructed = TRUE]
    /\ UNCHANGED <<engine, store, fn, sink, csv, wp, ro, chess, pol>>

\* execute game, then return 0
MainGame ==
    /\ cli.pc = "game"
    /\ \E st \in ExitStatuses(0) :
          cli' = [cli EXCEPT !.pc = "exited", !.searched = TRUE, !.status = <<st>>]
    /\ UNCHANGED <<engine, store, fn, sink, csv, wp, ro, chess, pol>>

NextCli ==
    \/ MainStart
    \/ MainKey
    \/ MainInit
    \/ MainGame

SpecCli == InitCli /\ [][NextCli]_vars

(* ----------------------------- writeResults ---------------------------- *)
\* one row of the stream: Branch;ID;ParentID;Time;Actions;Opponent;Select and
\* the operands of Visit and Win
Row(ns, branch, parent, next, time, opponent, select) ==
    [Branch |-> branch, ID |-> next, ParentID |-> parent, Time |-> time,
     Actions |-> ns[next].action, Opponent |-> opponent, Select |-> select,
     N |-> ns[next].N, W |-> ns[next].W]

BranchOfChildSame(branch) == branch

\* writeBranchNodes(branch+1, next, child, ...)
BranchOfChild(branch) == branch + 1

\* writeBranchNodes: the row of next, then its children from the i-th on
RECURSIVE writeBranchNodes(_, _, _, _, _, _)
RECURSIVE writeBranchChilds(_, _, _, _, _, _)
writeBranchNodes(ns, branch, parent, next, time, opponent) ==
    <<Row(ns, branch, parent, next, time, opponent, 0)>>
    \o writeBranchChilds(ns, branch, next, 1, time, opponent)

writeBranchChilds(ns, branch, next, i, time, opponent) ==
    IF i > Len(ns[next].childs) THEN <<>>
    ELSE writeBranchNodes(ns, BranchOfChild(branch), next, ns[next].childs[i], time, opponent)
         \o writeBranchChilds(ns, branch, next, i + 1, time, opponent)

\* the while loop over the children of parent for history[time], from the
\* i-th child on: the rows, and the local `child` after the loop
RECURSIVE writeChilds(_, _, _, _, _, _, _)
writeChilds(ns, parent, child, act, time, opponent, i) ==
    IF i > Len(ns[parent].childs) THEN [rows |-> <<>>, child |-> child]
    ELSE LET next == ns[parent].childs[i]
         IN  IF ns[next].action = act
             THEN LET r == writeChilds(ns, parent, next, act, time, opponent, i + 1)
                  IN  [r EXCEPT !.rows = <<Row(ns, 0, parent, next, time, opponent, 1)>> \o @]
             ELSE LET r == writeChilds(ns, parent, child, act, time, opponent, i + 1)
                  IN  [r EXCEPT !.rows =
                          writeBranchNodes(ns, 0, parent, next, time, opponent) \o @]

\* the for loop of writeResults from index time on (time counts from 0)
RECURSIVE writeTimes(_, _, _, _, _, _)
writeTimes(ns, idxAi, history, time, parent, child) ==
    IF time >= Len(history) THEN <<>>
    ELSE LET opponent == IF time % 2 # idxAi THEN 1 ELSE 0
             r == writeChilds(ns, parent, child, history[time + 1], time, opponent, 1)
         IN  r.rows \o writeTimes(ns, idxAi, history, time + 1, r.child, r.child)

writeResults(ns, idxAi, history) == writeTimes(ns, idxAi, history, 0, Root, Root)

\* h is legal play from state s
RECURSIVE LegalPlay(_, _)
LegalPlay(s, h) ==
    IF h = <<>> THEN TRUE
    ELSE /\ ~isFinished(s)
         /\ \E i \in 1 .. Len(getPossibleActions(s)) : getPossibleActions(s)[i] = Head(h)
         /\ LegalPlay(update(s, Head(h)), Tail(h))

\* the actions played after the last execute of this engine: the one it
\* returned and, when the game went on, the move of the other player
GameTails == {<<>>} \cup {<<Act(x, y)>> : x \in 0 .. (Cols - 1), y \in 0 .. (Rows - 1)}

\* main, after the game loop: the tree of one player is written with the
\* history of the whole game
WriteResults ==
    /\ mpc = "done"
    /\ g.mono
    /\ \E tail \in GameTails :
          LET h == call.history \o <<ret>> \o tail
              idxAi == call.cstate.time % 2
          IN  /\ LegalPlay(InitState, h)
              /\ isFinished(Replay(InitState, h))
              /\ csv' = [history |-> h, idxAi |-> idxAi,
                         rows |-> writeResults(nodes, idxAi, h)]
    /\ mpc' = "written"
    /\ UNCHANGED <<nodes, mt, store, fn, sink, wp, ro, cli, chess, pol, call, iterNext, th, ret, calls, used, g>>

NextCsv ==
    \/ Next
    \/ WriteResults

SpecCsv == Init /\ [][NextCsv]_vars

(* --------------------- computeMCTS_WP of the adapters ------------------- *)
\* Chess::computeMCTS_W, as the fraction <<numerator, denominator>>; figs[p]
\* are the figure types of player p + 1, the king in the first place
RECURSIVE FigureSum(_)
FigureSum(f) == IF f = <<>> THEN 0 ELSE figureValue[f[1] + 1] + FigureSum(Tail(f))

ChessComputeMCTS_W(figs, idxAi) ==
    LET idxOp == (idxAi + 1) % 2
        aiWin == FigureSum(figs[idxAi + 1])
        opWin == FigureSum(figs[idxOp + 1])
        aiKing == figs[idxAi + 1][1]
        opKing == figs[idxOp + 1][1]
    IN  IF aiKing = FigUnset /\ opKing = FigUnset THEN <<1, 2>>
        ELSE IF aiKing = FigUnset THEN <<0, 1>>
        ELSE IF opKing = FigUnset THEN <<1, 1>>
        ELSE <<aiWin, aiWin + opWin>>

\* the figures of one player in the calls looked at: the king or nothing in
\* the first place, one more figure or nothing in the second
WpFigures == {<<k, f>> : k \in {FigUnset, FigKing}, f \in {FigUnset, FigPawn, FigQueen}}

InitWp ==
    /\ InitEngine
    /\ store = InitStore
    /\ fn = NoFn
    /\ sink = NoSink
    /\ pol = NoPol
    /\ chess = NoChess
    /\ cli = NoCli
    /\ csv = NoCsv
    /\ ro = NoRo
    /\ \E a \in {"Chess", "Connect4"}, p \in {"0", "tcp"}, i \in 0 .. 1,
          n \in 1 .. MaxWpActions, fw \in WpFigures, fb \in WpFigures :
          wp = [NoWp EXCEPT !.adapter = a, !.port = p, !.idxMe = i, !.nActions = n,
                            !.figs = IF a = "Chess" THEN <<fw, fb>> ELSE <<<<>>, <<>>>>]

\* the request and the reply of the priors service: a reply of another
\* length throws, a good one gives W and the softmax over the actions
WpRequest(r) ==
    {[r EXCEPT !.sent = @ + 1, !.pc = "thrown"]}
    \cup {[r EXCEPT !.sent = @ + 1, !.pc = "returned", !.P = P, !.den = PDen,
                     !.W = <<w, 1>>] : P \in PosVecs(r.nActions, PDen), w \in WVals}

\* Chess::computeMCTS_WP
ChessWP ==
    /\ wp.pc = "call" /\ wp.adapter = "Chess"
    /\ IF wp.port = "0"
       THEN wp' = [wp EXCEPT !.pc = "returned",
                             !.W = ChessComputeMCTS_W(wp.figs, wp.idxMe),
                             !.P = [i \in 1 .. wp.nActions |-> 1], !.den = 1]
       ELSE wp' \in WpRequest(wp)
    /\ UNCHANGED <<engine, store, fn, sink, ro, csv, cli, chess, pol>>

\* Connect4::computeMCTS_WP: the socket is connected to ports[idxMe] whatever
\* the string is; what connect does with a string that is no endpoint is
\* the library's matter: it throws, or the request goes out
Connect4WP ==
    /\ wp.pc = "call" /\ wp.adapter = "Connect4"
    /\ \E connects \in BOOLEAN :
          /\ wp.port # "0" => connects
          /\ IF connects THEN wp' \in WpRequest(wp)
             ELSE wp' = [wp EXCEPT !.pc = "thrown"]
    /\ UNCHANGED <<engine, store, fn, sink, ro, csv, cli, chess, pol>>

NextWp ==
    \/ ChessWP
    \/ Connect4WP

SpecWp == InitWp /\ [][NextWp]_vars

(* ------------------------------ properties ------------------------------ *)
Done == mpc = "done"

SubRoot == nodes[call.subroot]

Legal == getPossibleActions(call.cstate)

\* C1: a single-threaded execute with policyIter = k that does not take the
\* single-child early exit leaves the sub-root's N at its value before the
\* call plus k, for a fresh and for a reused sub-root.
C1_SubRootGrowsByK ==
    (Done /\ ~g.early) => SubRoot.N = g.N0 + call.policyIter

C1_Witness ==
    Done /\ ~g.early /\ g.N0 > 0 /\ call.policyIter >= 2

\* position of the first child of node whose N is maximal
FirstMaxChild(ns, node) ==
    LET ch == ns[node].childs
    IN  CHOOSE i \in 1 .. Len(ch) :
           /\ \A j \in 1 .. Len(ch) : ns[ch[j]].N <= ns[ch[i]].N
           /\ \A j \in 1 .. (i - 1) : ns[ch[j]].N < ns[ch[i]].N

\* C2: the deterministic selector returns the action of the first child, in
\* insertion order, among those of maximal N, also when every N is 0.
C2_ReturnsFirstMaxChild ==
    (Done /\ call.det /\ ~g.early /\ SubRoot.childs # <<>>)
        => ret = nodes[SubRoot.childs[FirstMaxChild(nodes, call.subroot)]].action

\* C3: a deterministic execute with one iteration on a sub-root that is not
\* expanded, with at least two legal actions, leaves exactly one child with
\* N > 0 and returns that child's action, a legal action of the state.
C3_SingleIterationReturnsChild ==
    (Done /\ call.det /\ call.policyIter = 1 /\ g.N0 = 0 /\ g.kids0 = 0
          /\ Len(Legal) >= 2)
        => /\ Cardinality({i \in 1 .. Len(SubRoot.childs) :
                             nodes[SubRoot.childs[i]].N > 0}) = 1
           /\ \E i \in 1 .. Len(SubRoot.childs) :
                 /\ nodes[SubRoot.childs[i]].N > 0
                 /\ ret = nodes[SubRoot.childs[i]].action
           /\ \E i \in 1 .. Len(Legal) : ret = Legal[i]

\* C4: in deterministic mode a sub-root with exactly one child after the
\* warm iteration makes execute return that child's action with no fan-out
\* iteration run; a sub-root not visited before the call then has N = 1.
C4_SingleChildEarlyExit ==
    (Done /\ call.det /\ g.kidsW = 1)
        => /\ ret = nodes[SubRoot.childs[1]].action
           /\ g.fan = 0
           /\ (g.N0 = 0 => SubRoot.N = 1)

C4_Witness ==
    Done /\ call.det /\ g.kidsW = 1 /\ g.N0 = 0 /\ call.policyIter >= 2

ExpandedAs(ns, node, acts, P) ==
    /\ Len(ns[node].childs) = Len(acts)
    /\ \A i \in 1 .. Len(acts) :
          LET c == ns[ns[node].childs[i]]
          IN  c.action = acts[i] /\ c.P = P[i] /\ c.N = 0 /\ c.W = 0
              /\ c.childs = <<>>

\* C6: the step that ends an expansion leaves the node with exactly one
\* child per action of getPossibleActions for the traversed state, in that
\* order, the i-th with the i-th prior of computeMCTS_WP, N = 0 and W = 0.
C6_ExpansionChildren ==
    [][\A t \in DOMAIN th :
          (th[t].pc = "setP" /\ th'[t].pc # "setP" /\ th'[t].pc # "expand")
              => ExpandedAs(nodes', th[t].node, getPossibleActions(th[t].state),
                            th[t].P)]_vars

C6_Witness ==
    \E t \in DOMAIN th :
        /\ th[t].pc = "bpN" /\ th[t].idx = 1 /\ th[t].expanded = th[t].node
        /\ Len(th[t].acts) >= 2
        /\ nodes[th[t].node].N = 0

Expanding(t) == th[t].pc \in {"expand", "setP"}

\* C7: under every interleaving a node is expanded by at most one iteration,
\* and once its expansion is over its children are one per legal action, in
\* order, none twice.
C7_ExpandedOnce ==
    \A i \in 1 .. Len(g.exps) :
        LET e == g.exps[i]
        IN  /\ \A j \in 1 .. Len(g.exps) : g.exps[j].node = e.node => j = i
            /\ (~Expanding(e.by) \/ th[e.by].expanded # e.node)
                  => /\ Len(nodes[e.node].childs) = Len(e.acts)
                     /\ \A k \in 1 .. Len(e.acts) :
                           nodes[nodes[e.node].childs[k]].action = e.acts[k]

\* a thread holds the mutex of a node another thread has expanded, and finds
\* the children there
C7_Witness ==
    \E t \in DOMAIN th :
        /\ th[t].pc = "check"
        /\ getChildCount(nodes, th[t].node) > 0
        /\ \E i \in 1 .. Len(g.exps) :
              g.exps[i].node = th[t].node /\ g.exps[i].by # t

\* C8: when all threads of an execute have finished their backups, the
\* sub-root's W is its W before the call plus the sum of the values backed
\* up through it.
C8_NoLostW ==
    Done => SubRoot.W = g.W0 + g.sumW

\* C9: in the OpenMP build an execute with policyIter = k and no early exit
\* leaves the sub-root's N at its value before the call plus k.
C9_NoLostVisit ==
    (Done /\ ~g.early) => SubRoot.N = g.N0 + call.policyIter

C9_Witness ==
    Done /\ ~g.early /\ g.conc /\ \A t \in DOMAIN th : g.ran[t] >= 1

\* thread a has made a child of its node visible and not yet assigned the
\* last P
MidExpansion(a) ==
    th[a].pc = "setP" \/ (th[a].pc = "expand" /\ th[a].idx > 1)

\* C10: no thread iterates the children of a node, or reads the P of one of
\* them, while another thread is between making the node's first child
\* visible and assigning the last child's P.
C10_ChildrenPublished ==
    \A a \in DOMAIN th, b \in DOMAIN th :
        (a # b /\ MidExpansion(a))
            => ~(th[b].pc \in {"selBegin", "selChild"} /\ th[b].node = th[a].node)

\* a thread reads the children of a node whose expander is still backing up
C10_Witness ==
    \E a \in DOMAIN th, b \in DOMAIN th :
        /\ a # b
        /\ th[b].pc = "selChild"
        /\ th[a].expanded = th[b].node
        /\ th[a].pc \in {"bpN", "bpLoad", "bpCAS"}
        /\ nodes[th[b].node].N = 0

\* C11: in every reachable state, the intermediate states of concurrent
\* backups included, a node with N = 0 has W = 0.
C11_UnvisitedHasNoValue ==
    \A i \in 1 .. Len(nodes) : nodes[i].N = 0 => nodes[i].W = 0

\* two threads are inside backprop at once, one between node.N++ and
\* node.W += W, and the tree holds a node not yet visited
C11_Witness ==
    /\ \E a \in DOMAIN th, b \in DOMAIN th :
          /\ a # b
          /\ th[a].pc \in {"bpLoad", "bpCAS"} /\ th[a].W # 0
          /\ th[b].pc \in {"bpN", "bpLoad", "bpCAS"}
    /\ \E i \in 1 .. Len(nodes) : nodes[i].N = 0

\* sum of N over the children of node from position i
RECURSIVE SumChildN(_, _, _)
SumChildN(ns, node, i) ==
    IF i > Len(ns[node].childs) THEN 0
    ELSE ns[ns[node].childs[i]].N + SumChildN(ns, node, i + 1)

\* the nodes of the subtree under node, node included
RECURSIVE SubTree(_, _)
SubTree(ns, node) ==
    {node} \cup UNION {SubTree(ns, ns[node].childs[i]) : i \in 1 .. Len(ns[node].childs)}

\* the children of node account for every visit of node that did not end there
Balanced(n) ==
    nodes[n].N >= 0 /\ SumChildN(nodes, n, 1) = nodes[n].N - EndsAt(g, n)

\* C12 as stated: after single-threaded execute calls with successively
\* longer histories, every node of the tree, the ancestors of the current
\* sub-root included, has N >= 0 and children whose N sum to its N minus the
\* iterations that ended at it.
C12_EveryNodeBalanced ==
    (Done /\ g.mono) => \A n \in 1 .. Len(nodes) : Balanced(n)

\* C12 as amended: the same for the current sub-root and the nodes below it.
C12_SubTreeBalanced ==
    (Done /\ g.mono) => \A n \in SubTree(nodes, call.subroot) : Balanced(n)

\* a second call on a longer history has searched a reused sub-root down to
\* a grandchild
C12_Witness ==
    /\ Done /\ g.mono /\ calls = 2 /\ g.N0 > 0
    /\ \E n \in SubTree(nodes, call.subroot) :
          n # call.subroot /\ SumChildN(nodes, n, 1) > 0

\* the node reached from node by the children labelled with the actions of h,
\* the first such child at each step; 0 if a step has no such child
RECURSIVE Walk(_, _, _)
Walk(ns, node, h) ==
    IF h = <<>> THEN node
    ELSE LET ch == ns[node].childs
             hits == {i \in 1 .. Len(ch) : ns[ch[i]].action = Head(h)}
         IN  IF hits = {} THEN 0
             ELSE Walk(ns, ch[CHOOSE i \in hits : \A j \in hits : i <= j], Tail(h))

\* the number of leading actions of h that Walk can follow from node
RECURSIVE MatchLen(_, _, _)
MatchLen(ns, node, h) ==
    IF h = <<>> \/ Walk(ns, node, <<Head(h)>>) = 0 THEN 0
    ELSE 1 + MatchLen(ns, Walk(ns, node, <<Head(h)>>), Tail(h))

\* the step of execute that runs catchup
CatchupStep == mpc = "idle" /\ mpc' = "warm"

\* C13: catchup returns the node reached from the root along the history; it
\* creates a node exactly for the steps that find no child with the action,
\* and every created node has N = 0, W = 0, P = 0, the action of its step,
\* and no child but the node created for the next step.
C13_CatchupWalks ==
    [][CatchupStep =>
          LET h == call'.history
              m == MatchLen(nodes, Root, h)
          IN  /\ Walk(nodes', Root, h) = call'.subroot
              /\ Len(nodes') = Len(nodes) + (Len(h) - m)
              /\ \A i \in (Len(nodes) + 1) .. Len(nodes') :
                    /\ nodes'[i].N = 0 /\ nodes'[i].W = 0 /\ nodes'[i].P = 0
                    /\ nodes'[i].action = h[m + i - Len(nodes)]
                    /\ nodes'[i].childs = IF i < Len(nodes') THEN <<i + 1>> ELSE <<>>]_vars

\* the second call's catchup has followed a child made by an expansion and
\* created the sub-root under it
C13_Witness ==
    /\ calls = 2 /\ mpc = "warm" /\ th[1].pc = "loop"
    /\ Len(call.history) = 2
    /\ call.subroot = Len(nodes) /\ call.subroot \in g.cat
    /\ nodes[Walk(nodes, Root, <<call.history[1]>>)].P > 0

\* the nodes of old are in new with their N, W, P and action, and with their
\* children in the same order, new children after them
Frame(old, new) ==
    /\ Len(new) >= Len(old)
    /\ \A i \in 1 .. Len(old) :
          /\ new[i].N = old[i].N /\ new[i].W = old[i].W /\ new[i].P = old[i].P
          /\ new[i].action = old[i].action
          /\ Len(new[i].childs) >= Len(old[i].childs)
          /\ SubSeq(new[i].childs, 1, Len(old[i].childs)) = old[i].childs

\* C14: a second catchup with the same history returns the same node and
\* creates no node, and catchup leaves N, W, P, action and the order of the
\* children of every node that existed before it.
C14_CatchupIdempotent ==
    [][CatchupStep =>
          LET c2 == catchup(nodes', Root, call'.history)
          IN  /\ c2.node = call'.subroot
              /\ c2.nodes = nodes'
              /\ Frame(nodes, nodes')]_vars

\* catchup has added a child to a node that had a child already, in a tree
\* with visited nodes
C14_Witness ==
    /\ calls = 2 /\ mpc = "warm" /\ th[1].pc = "loop"
    /\ call.subroot = Len(nodes) /\ SubRoot.N = 0
    /\ \E n \in 1 .. Len(nodes) :
          /\ Len(nodes[n].childs) >= 2
          /\ nodes[n].childs[Len(nodes[n].childs)] = call.subroot
    /\ \E n \in 1 .. Len(nodes) : nodes[n].N > 0

\* the call that begins has the history of the call before it plus one
\* action, and the sub-root of that call has a child labelled with it
ReuseStep ==
    /\ CatchupStep /\ calls >= 1
    /\ Len(call'.history) = Len(g.prevh) + 1
    /\ SubSeq(call'.history, 1, Len(g.prevh)) = g.prevh
    /\ Walk(nodes, Root, g.prevh) # 0
    /\ Walk(nodes, Root, call'.history) # 0

\* C15: when a call's history is the earlier call's history h plus an action
\* a and the earlier sub-root has a child c labelled a, the search starts at
\* c, catchup creates no node, and every N and W is as the earlier search
\* left it (nothing between the return of execute and the next search
\* changes the tree).
C15_TreeReuse ==
    [][/\ Done => nodes' = nodes
       /\ ReuseStep =>
             /\ call'.subroot = Walk(nodes, Root, call'.history)
             /\ th'[1].node = call'.subroot /\ th'[1].visited = <<call'.subroot>>
             /\ nodes' = nodes]_vars

\* the second call starts at a child of the first call's sub-root that the
\* first search has visited and expanded
C15_Witness ==
    /\ calls = 2 /\ g.mono /\ Len(call.history) = 1
    /\ mpc = "warm" /\ th[1].pc = "loop" /\ th[1].visited = <<call.subroot>>
    /\ ~(call.subroot \in g.cat)
    /\ SubRoot.N > 0 /\ SubRoot.N = g.N0 /\ SubRoot.childs # <<>>

\* C16: after any sequence of execute calls with arbitrary histories, no
\* node has two children with equal actions (Connect4 never returns one
\* action twice for a state).
C16_DistinctChildActions ==
    \A n \in 1 .. Len(nodes) :
        \A i \in 1 .. Len(nodes[n].childs), j \in 1 .. Len(nodes[n].childs) :
            nodes[nodes[n].childs[i]].action = nodes[nodes[n].childs[j]].action
                => i = j

\* the search has gone through a node whose only children come from catchup,
\* in a tree where catchup has also added under a node visited before
C16_Witness ==
    /\ Done /\ calls = 2
    /\ \E n \in 1 .. Len(nodes) :
          /\ ~(n \in g.expd) /\ nodes[n].N > 0 /\ nodes[n].childs # <<>>
          /\ \A i \in 1 .. Len(nodes[n].childs) : nodes[n].childs[i] \in g.cat
    /\ g.expd # {}

\* the node that holds n among its children
Parent(ns, n) ==
    CHOOSE p \in 1 .. Len(ns) : \E i \in 1 .. Len(ns[p].childs) : ns[p].childs[i] = n

\* the state of the game at node n: the actions from the root played in order
RECURSIVE StateOf(_, _)
StateOf(ns, n) ==
    IF n = Root THEN InitState ELSE update(StateOf(ns, Parent(ns, n)), ns[n].action)

ChildActions(ns, n) == [i \in 1 .. Len(ns[n].childs) |-> ns[ns[n].childs[i]].action]

\* no thread is inside the expansion loop of n
Settled(n) == \A t \in DOMAIN th : ~(Expanding(t) /\ th[t].node = n)

\* what C17 states of node n, whose state is s
StatedAt(n, s) ==
    Settled(n) =>
        /\ (nodes[n].childs = <<>>) <=> (~(n \in g.expd) \/ isFinished(s))
        /\ nodes[n].childs # <<>>
               => /\ n \in g.expd
                  /\ ChildActions(nodes, n) = getPossibleActions(s)

RECURSIVE StatedBelow(_, _)
StatedBelow(n, s) ==
    /\ StatedAt(n, s)
    /\ \A i \in 1 .. Len(nodes[n].childs) :
          StatedBelow(nodes[n].childs[i], update(s, nodes[nodes[n].childs[i]].action))

AmendedAt(n, s) ==
    Settled(n) =>
        /\ n \in g.expd
               => ~isFinished(s) /\ ChildActions(nodes, n) = getPossibleActions(s)
        /\ ~(n \in g.expd)
               => \A i \in 1 .. Len(nodes[n].childs) : nodes[n].childs[i] \in g.cat
        /\ isFinished(s) => nodes[n].childs = <<>>

RECURSIVE AmendedBelow(_, _)
AmendedBelow(n, s) ==
    /\ AmendedAt(n, s)
    /\ \A i \in 1 .. Len(nodes[n].childs) :
          AmendedBelow(nodes[n].childs[i], update(s, nodes[nodes[n].childs[i]].action))

AllBelow(n) == \A q \in 1 .. Len(store.ins) : Len(store.ins[q]) < n

Iterated == store.it.node >= 0

\* C18: when every node has received fewer than N_MaxChild children, the
\* three layouts give for a node the same getChildCount and the same sequence
\* of child actions from the child iterator, and it is the order of insertion
C18_LayoutsInterchangeable ==
    (Iterated /\ AllBelow(MaxChild)) =>
        LET it == store.it
            ins == store.ins[it.node + 1]
        IN  /\ it.dyn = ins /\ it.arr = ins /\ it.lst = ins
            /\ it.dynCount = Len(ins) /\ it.arrCount = Len(ins) /\ it.lstCount = Len(ins)
            /\ ChildActs(store.arr, it.arr) = ChildActs(store.dyn, it.dyn)
            /\ ChildActs(store.lst, it.lst) = ChildActs(store.dyn, it.dyn)

\* two children with different actions were iterated, and another node has
\* a child of its own
C18_Witness ==
    /\ Iterated /\ AllBelow(MaxChild)
    /\ Len(store.it.arr) = 2
    /\ ChildActs(store.arr, store.it.arr)[1] # ChildActs(store.arr, store.it.arr)[2]
    /\ \E q \in 1 .. Len(store.ins) : q # store.it.node + 1 /\ Len(store.ins[q]) = 1

\* C19: after k <= N_MaxChild addNode calls on a node of MCTreeStaticArray,
\* its child iterator yields those k children in the order of insertion and
\* reads only the slots childs[0 .. N_MaxChild-1]
C19_ArrayIteratorInBounds ==
    (Iterated /\ AllBelow(MaxChild + 1)) =>
        /\ store.it.arr = store.ins[store.it.node + 1]
        /\ store.it.slots \subseteq 0 .. (MaxChild - 1)

\* the score of the i-th child of the node thread record r selects at
Score(ns, r, i) ==
    getUCB(ns[ns[r.node].childs[i]], r.ratio4, r.dirichlet[((i - 1) % Len(r.dirichlet)) + 1])

\* no child scores above the i-th, and every earlier child scores below it
IsFirstMax(ns, r, i) ==
    \A j \in 1 .. Len(ns[r.node].childs) :
        /\ ~UCBLess(Score(ns, r, i), Score(ns, r, j), r.M)
        /\ j < i => UCBLess(Score(ns, r, j), Score(ns, r, i), r.M)

\* C20: the selection step at a node with at least one child descends to the
\* child of maximum score, and among children of equal maximal score to the
\* first in the order of insertion
C20_SelectsFirstMax ==
    [][\A t \in Threads :
          (th[t].pc = "selChild" /\ th'[t].pc = "loop") =>
              \E i \in 1 .. Len(nodes[th[t].node].childs) :
                  /\ th'[t].node = nodes[th[t].node].childs[i]
                  /\ IsFirstMax(nodes, th[t], i)]_vars

\* the last pass of the loop finds a child whose score equals the best so far
C20_Witness ==
    \E t \in Threads :
        /\ th[t].pc = "selChild"
        /\ th[t].idx = Len(nodes[th[t].node].childs)
        /\ th[t].idx >= 2
        /\ th[t].best # th[t].node
        /\ \E w \in 1 .. Len(nodes[th[t].node].childs) : nodes[nodes[th[t].node].childs[w]].N > 0
        /\ LET val == Score(nodes, th[t], th[t].idx)
           IN  /\ ~UCBLess(th[t].bestVal, val, th[t].M)
               /\ ~UCBLess(val, th[t].bestVal, th[t].M)

\* thread record r with another Dirichlet vector of the same length
WithNoise(r, d) == [r EXCEPT !.dirichlet = d]

\* C21: the blend ratio is 0.75 for the selection at the sub-root and 1.0 for
\* every selection at a deeper node, where neither a child's score nor the
\* child descended to depends on the Dirichlet vector
C21_NoiseOnlyAtSubRoot ==
    [][\A t \in Threads :
          th[t].pc = "selChild" =>
              /\ Len(th[t].visited) = 1 => th[t].ratio4 = RatioRoot4
              /\ th[t].node # call.subroot =>
                    /\ th[t].ratio4 = RatioChild4
                    /\ \A d \in DirichletVecs(Len(th[t].dirichlet)) :
                          /\ Score(nodes, WithNoise(th[t], d), th[t].idx)
                                = Score(nodes, th[t], th[t].idx)
                          /\ th'[t].pc = "loop" =>
                                \E i \in 1 .. Len(nodes[th[t].node].childs) :
                                    /\ th'[t].node = nodes[th[t].node].childs[i]
                                    /\ IsFirstMax(nodes, WithNoise(th[t], d), i)]_vars

\* a selection below the sub-root, among two children, made by an iteration
\* whose Dirichlet vector is not uniform
C21_Witness ==
    \E t \in Threads :
        /\ th[t].pc = "selChild"
        /\ th[t].node # call.subroot
        /\ th[t].idx = Len(nodes[th[t].node].childs)
        /\ th[t].idx >= 2
        /\ Len(th[t].dirichlet) >= 2
        /\ th[t].dirichlet[1] # th[t].dirichlet[2]

\* C22: the value under the square root of the exploration term is
\* max(N, 1) of the node's full visit count N
C22_SqrtOfFullCount ==
    fn.op = "sqrtArg" => fn.out = Max(fn.in, 1)

\* how often node n occurs on a path
Occ(path, n) == Cardinality({i \in DOMAIN path : path[i] = n})

\* in the build without OpenMP: when a backprop has ended, every node is as
\* the backprop found it, but for 1 more in N and the value W more in W per
\* occurrence on the visited path
BackpropFrameSeq ==
    \A t \in Threads :
        (th[t].pc = "iterDone" /\ g.bp0 # <<>>) =>
            /\ Len(nodes) = Len(g.bp0)
            /\ \A n \in 1 .. Len(nodes) :
                  nodes[n] = [g.bp0[n] EXCEPT !.N = @ + Occ(th[t].visited, n),
                                              !.W = @ + Occ(th[t].visited, n) * th[t].W]

\* the node the backprop of thread t is at
BpNode(t) == th[t].visited[th[t].idx]

\* C23: backprop adds 1 to N and the same value W to every node on the
\* visited path, once per occurrence, and leaves N, W, P, action and children
\* of every other node as they were: the step that completes N++ adds 1 to
\* the N of the node and the step that completes W += adds the iteration's
\* W to its W, and neither changes anything else in the tree
C23_BackpropAddsW ==
    [][\A t \in Threads :
          /\ (th[t].pc = "bpN" /\ th'[t].pc # "bpN") =>
                nodes' = [nodes EXCEPT ![BpNode(t)].N = @ + 1]
          /\ (th[t].pc \in {"bpW", "bpCAS"} /\ th'[t].pc \notin {"bpW", "bpCAS"}) =>
                nodes' = [nodes EXCEPT ![BpNode(t)].W = @ + th[t].W]]_vars

\* the half-moves the schedule of the temperature keeps it at 1.0
ScheduleEarlyMoves == 30

\* C24: stochastic execute selects with temperature 1.0 while the history is
\* shorter than 30 actions and with 0.05 for every decision after that
C24_TauSchedule ==
    fn.op = "tau" =>
        fn.out = (IF fn.in < ScheduleEarlyMoves THEN TauEarly100 ELSE TauLate100)

\* C25: an execute that has returned an action has called storeGamePolicyDNN
\* once if it ran in stochastic mode, after all its search iterations were
\* finished, and never if it ran in deterministic mode
C25_SampleIffStochastic ==
    /\ mpc \in {"warm", "fanout"} => g.stored = 0
    /\ mpc = "done" =>
          /\ g.stored = (IF call.det THEN 0 ELSE 1)
          /\ g.stored = 1 =>
                /\ \A t \in Threads : th[t].pc = "idle"
                /\ g.fan + 1 = Max(call.policyIter, 1)

\* a stochastic execute of three iterations and a deterministic one have
\* returned, the stochastic one last
C25_Witness ==
    /\ mpc = "done" /\ ~call.det /\ g.stored = 1
    /\ call.policyIter = 3
    /\ calls = 2 /\ g.samples = 1

Ack == <<AckByte0, AckByte1>>

\* C26: the state tensor is sent first; the policy tensor is sent only after
\* the sink answered the state tensor with the two bytes {4, 2}; the call
\* succeeds only if the policy tensor is answered with {4, 2} too; any other
\* reply to either message raises an error, and after a bad first reply the
\* policy tensor is never sent
C26_StrictRequestReply ==
    /\ sink.sent \in {<<>>, <<"state">>, <<"state", "policy">>}
    /\ Len(sink.sent) = 2 => sink.replies[1] = Ack
    /\ sink.pc = "stored" => (sink.replies = <<Ack, Ack>>)
    /\ \A i \in 1 .. Len(sink.replies) :
          sink.replies[i] # Ack => (sink.pc = "error" /\ Len(sink.replies) = i)

\* the step in which computeMCTS_WP fails in the iteration of thread t
FailStep(t) == th[t].pc = "check" /\ th'[t].pc = "failed"

\* a failure of the priors service leaves every node with the N, W, P, action
\* and children it had, and adds no node
FailLeavesTree ==
    [][\A t \in Threads :
          FailStep(t) =>
              /\ Len(nodes') = Len(nodes)
              /\ \A n \in 1 .. Len(nodes) : nodes'[n] = [nodes[n] EXCEPT !.lock = nodes'[n].lock]]_vars

\* C27: if the priors service fails during an iteration, the iteration
\* changes nothing in the tree: the node being expanded gets no children, no
\* node has its N or W changed, and the mutex of the node is released
C27_FailedIterationNoEffect ==
    [][\A t \in Threads :
          FailStep(t) =>
              /\ Len(nodes') = Len(nodes)
              /\ \A n \in 1 .. Len(nodes) : nodes'[n] = [nodes[n] EXCEPT !.lock = nodes'[n].lock]
              /\ nodes'[th[t].node].lock = 0]_vars

\* C28: a CPU rollout with maxRolloutDepth = d >= 1 applies random legal
\* actions until the state is finished or d actions have been applied, and
\* with d = 0 until the state is finished
C28_RolloutDepth ==
    ro.pc = "cpuBackprop" =>
        IF ro.maxRolloutDepth >= 1
        THEN /\ ro.applied <= ro.maxRolloutDepth
             /\ ro.applied < ro.maxRolloutDepth => isFinished(ro.rstate)
        ELSE isFinished(ro.rstate)

C30_PhaseOrder ==
    \A i, k \in 1 .. Len(ro.log) :
        (i < k /\ ro.log[i] = "backup") => ro.log[k] = "backup"


\* a step that starts an iteration of the omp loop
FanOutStarts == g'.fan = g.fan + 1

\* a step in which the sub-root is expanded
SubRootExpands ==
    /\ Len(g'.exps) = Len(g.exps) + 1
    /\ g'.exps[Len(g'.exps)].node = call.subroot

\* C31: the warm iteration, its backup included, has ended before an
\* iteration of the fan-out starts: at that start no thread is inside an
\* iteration unless the fan-out has begun, the sub-root of a state that is
\* not finished has N >= 1 and a child, and the sub-root is never expanded
\* by an iteration of the fan-out
C31_WarmBeforeFanOut ==
    [][ /\ FanOutStarts =>
              /\ mpc = "fanout"
              /\ g.fan = 0 => \A t \in Threads : th[t].pc = "idle"
              /\ ~isFinished(call.cstate) =>
                    /\ SubRoot.N >= 1
                    /\ getChildCount(nodes, call.subroot) >= 1
        /\ SubRootExpands => (mpc = "warm" /\ g.fan = 0) ]_vars

\* the first iteration of the fan-out has just started on two threads' worth
\* of loop, at a sub-root which the warm iteration expanded and backed up
C31_Witness ==
    /\ mt /\ mpc = "fanout" /\ g.fan = 1
    /\ \E t \in Threads : th[t].pc = "loop" /\ th[t].node = call.subroot
    /\ \E i \in 1 .. Len(g.exps) : g.exps[i].node = call.subroot
    /\ SubRoot.N >= 1
    /\ getChildCount(nodes, call.subroot) >= 2


\* C32: with the endpoint string "0" computeMCTS_WP of either adapter sends
\* no request and returns P[i] = 1 for every action, and W = computeMCTS_W
C32_SentinelSkipsNetwork ==
    (wp.pc # "call" /\ wp.port = "0") =>
        /\ wp.pc = "returned"
        /\ wp.sent = 0
        /\ wp.den = 1 /\ wp.P = [i \in 1 .. wp.nActions |-> 1]
        /\ wp.adapter = "Chess" => wp.W = ChessComputeMCTS_W(wp.figs, wp.idxMe)

\* the part of C32 that is about Chess
ChessSentinel == wp.adapter = "Chess" => C32_SentinelSkipsNetwork


\* the number of steps from node d up to its ancestor top
RECURSIVE Depth(_, _, _)
Depth(ns, top, d) == IF d = top THEN 0 ELSE 1 + Depth(ns, top, Parent(ns, d))

\* the rows written for node id
RowsOf(id) == {i \in 1 .. Len(csv.rows) : csv.rows[i].ID = id}

Written == mpc = "written"

\* the node the first t actions of the written history lead to, 0 if none
OnPath(t) == Walk(nodes, Root, SubSeq(csv.history, 1, t))

MainKeys == {"deterministic", "portW", "portB", "writeTree", "workDir", "seed", "p0", "p1"}

Ended == cli.pc \in {"exited", "aborted"}

HelpOnly == Len(cli.argv) = 1 /\ cli.argv[1] \in {"-h", "--help"}

\* the places of the keys: every second token
KeyPlaces == {i \in 1 .. Len(cli.argv) : i % 2 = 1}

UnknownKeyAt(i) == ~(cli.argv[i] \in MainKeys)

\* a value ahead of place i that std::stoi cannot convert
BadNumberBefore(i) ==
    \E k \in KeyPlaces :
        k < i /\ cli.argv[k] \in {"seed", "p0", "p1"} /\ cli.argv[k + 1] # "1"

Castled == chess.last # <<>> /\ chess.last[1].type = "Castling"

PassGoesDeeper ==
    [][(pol.pc = "policy" /\ pol'.pc = "policy") => pol'.depth > pol.depth]_vars

\* what holds of C36: execute returns whenever no state without an action
\* that is not finished is met
TerminatesUnlessStuck == pol.stuck \/ <>(pol.pc = "done")


Held(t) == {n \in 1 .. Len(nodes) : nodes[n].lock = t}

\* the part of C38 that is about states: a thread holds at most one node
\* mutex, holds none while it waits for one, and holds one only between
\* taking it and the end of the expansion
OneMutexAtATime ==
    mt => \A t \in Threads :
              /\ Cardinality(Held(t)) <= 1
              /\ th[t].pc = "lock" => Held(t) = {}
              /\ Held(t) # {} => /\ Held(t) = {th[t].node}
                                 /\ th[t].pc \in {"check", "expand", "setP", "failed"}

\* C38: concurrent iterations cannot deadlock: every thread that waits for
\* the mutex of a node acquires it in the end
C38_WaiterAcquires ==
    \A t \in 1 .. MTWorkers : (th[t].pc = "lock") ~> (th[t].pc = "check")

\* what holds of C38: the waiting thread acquires the mutex unless execute
\* is ended by an exception meanwhile
AcquiresUnlessAborted ==
    \A t \in 1 .. MTWorkers :
        (th[t].pc = "lock") ~> (th[t].pc = "check" \/ mpc = "aborted")


(* ------------- addNode of the array layout on a full parent -------------- *)
\* the addNode call of this step was made on node p
AddedTo(p) ==
    /\ Len(store'.ins) = Len(store.ins) + 1
    /\ store'.ins[p + 1] # store.ins[p + 1]

\* node p of the array layout has N_MaxChild children
ArrFull(v, p) == ArrFreeIdx(At(v, p)) = MaxChild

\* the child slots of the nodes of vector v
ArrSlots(v) == [n \in 1 .. Len(v) |-> v[n].childs]

\* C39: MCTreeStaticArray::addNode on a node that already has N_MaxChild
\* children is rejected without damaging the tree: no child slot of any node
\* is written, nothing is written outside the parent's childs array, and no
\* node is appended to the node vector.
C39_FullParentRejected ==
    [][\A p \in 0 .. (Len(store.dyn) - 1) :
           (AddedTo(p) /\ ArrFull(store.arr, p))
               => /\ Len(store'.arr) = Len(store.arr)
                  /\ ArrSlots(store'.arr) = ArrSlots(store.arr)
                  /\ ~store'.oob]_vars

\* what the code does on a full parent: it writes childs[N_MaxChild], outside
\* the array, and appends the node, which no child slot of the parent names
FullParentOverflows ==
    [][\A p \in 0 .. (Len(store.dyn) - 1) :
           (AddedTo(p) /\ ArrFull(store.arr, p))
               => /\ Len(store'.arr) = Len(store.arr) + 1
                  /\ store'.oob
                  /\ \A i \in 0 .. (MaxChild - 1) :
                         At(store'.arr, p).childs[i] # Len(store.arr)]_vars

\* an addNode call on a full parent was made
FullParentAdded == \E p \in 0 .. (Len(store.dyn) - 1) : Len(store.ins[p + 1]) > MaxChild

====
